---- MODULE Spec2Model ----
(***************************************************************************)
(* Order placement and payment capture of the Tawabil storefront backend.  *)
(*                                                                         *)
(* The repository carries two persistence backends for the same REST       *)
(* handlers: a relational one (Prisma, upper-case enum spellings) and a    *)
(* document one (Mongoose, lower-case spellings, schema validation and a   *)
(* pre('save') hook).  The variable `backend` fixes which one a behaviour  *)
(* runs; every handler exists once per backend.                            *)
(*                                                                         *)
(* One action is one HTTP request handled to completion (validation        *)
(* middleware, controller, model hooks and the response).  `req` is the    *)
(* request of the last step and `res` the response it produced.            *)
(*                                                                         *)
(* Not modelled: the wall-clock timestamp written into a statusHistory     *)
(* entry (no code reads it back), free-text address lines, e-mail.         *)
(***************************************************************************)
EXTENDS Integers, Sequences, FiniteSets, TLC

VARIABLES backend, keyId, keySecret, webhookSecret,
          orders, customers, gatewayOrders, req, res,
          cart, savedItems, calls

vars == <<backend, keyId, keySecret, webhookSecret,
          orders, customers, gatewayOrders, req, res, cart, savedItems,
          calls>>

config == <<backend, keyId, keySecret, webhookSecret>>

\* the arrays of the CartManager of the browser, which no server handler touches
browser == <<cart, savedItems>>

\* handlers in progress: what a handler that has read and not yet written
\* holds in its locals.  A handler modelled as one step leaves calls alone.
Calls == {"c1", "c2", "c3"}
Idle == [pc |-> "idle"]

(***************************************************************************)
(* Bounds of the exploration.                                              *)
(***************************************************************************)
\* largest quantity of one line that a well-formed request asks for
MaxQty == 2
\* longest statusHistory an order may grow to
MaxHistory == 4

(***************************************************************************)
(* Values.                                                                 *)
(***************************************************************************)
\* JavaScript null / undefined for string-valued fields
NULL == "null"
\* absent signature (header not sent, field never written)
NoSig == <<>>

Backends == {"prisma", "mongoose"}

\* identifiers generateOrderId can return (random; collisions are possible)
OrderIds == {"TW-1", "TW-2"}
\* identifiers the payment gateway hands out for its own order objects
RzpOrderIds == {"order_A", "order_B"}
PaymentIds == {"pay_1", "pay_2"}
Phones == {"9876543210", "9123456789"}

\* the enum spellings of the two backends
Upper ==
    [s \in {"pending", "confirmed", "processing", "dispatched", "delivered",
            "cancelled", "paid", "failed", "refunded", "cod", "online"} |->
        CASE s = "pending" -> "PENDING"
          [] s = "confirmed" -> "CONFIRMED"
          [] s = "processing" -> "PROCESSING"
          [] s = "dispatched" -> "DISPATCHED"
          [] s = "delivered" -> "DELIVERED"
          [] s = "cancelled" -> "CANCELLED"
          [] s = "paid" -> "PAID"
          [] s = "failed" -> "FAILED"
          [] s = "refunded" -> "REFUNDED"
          [] s = "cod" -> "COD"
          [] s = "online" -> "ONLINE"]

\* the spelling backend b stores for the enum value s
Enum(b, s) == IF b = "prisma" THEN Upper[s] ELSE s

(***************************************************************************)
(* Catalog: data/products.json as the tests quote it.                      *)
(***************************************************************************)
Catalog ==
    [p \in {"cardamom", "pepper", "cloves"} |->
        CASE p = "cardamom" -> [k \in {"50g"} |-> 280]
          [] p = "pepper" -> [k \in {"100g"} |-> 150]
          [] p = "cloves" -> [k \in {"25g"} |-> 220]]

\* the null that getProductPrice returns, as a number no price can be
NoPrice == -1

\* getProductPrice: the catalog price, or null for an unknown product or pack
\* size and for a zero price (!product.prices[packSize])
getProductPrice(productId, packSize) ==
    IF productId \notin DOMAIN Catalog THEN NoPrice
    ELSE IF packSize \notin DOMAIN Catalog[productId] THEN NoPrice
    ELSE IF Catalog[productId][packSize] = 0 THEN NoPrice
    ELSE Catalog[productId][packSize]

DELIVERY_CHARGE == 40
FREE_DELIVERY_ABOVE == 500

(***************************************************************************)
(* Strings that the code inspects character by character are sequences of  *)
(* one-character strings.                                                  *)
(***************************************************************************)
Digits == {"0", "1", "2", "3", "4", "5", "6", "7", "8", "9"}

RECURSIVE TrimLeft(_)
TrimLeft(s) == IF s # <<>> /\ Head(s) = " " THEN TrimLeft(Tail(s)) ELSE s

RECURSIVE TrimRight(_)
TrimRight(s) ==
    IF s # <<>> /\ s[Len(s)] = " " THEN TrimRight(SubSeq(s, 1, Len(s) - 1))
    ELSE s

\* express-validator .trim(): strips surrounding whitespace and writes the
\* result back into the request
Trim(s) == TrimRight(TrimLeft(s))

\* the pattern without its end anchor: /^560[0-9]{3}/
PincodeMatchesUnanchored(p) ==
    /\ Len(p) >= 6
    /\ p[1] = "5" /\ p[2] = "6" /\ p[3] = "0"
    /\ \A i \in 4..6 : p[i] \in Digits

\* /^560[0-9]{3}$/
PincodeMatches(p) ==
    /\ Len(p) = 6
    /\ p[1] = "5" /\ p[2] = "6" /\ p[3] = "0"
    /\ \A i \in 4..6 : p[i] \in Digits

RECURSIVE SumTotals(_)
SumTotals(items) ==
    IF items = <<>> THEN 0 ELSE Head(items).total + SumTotals(Tail(items))

(***************************************************************************)
(* POST /api/orders: validateOrder middleware.                             *)
(*                                                                         *)
(* A request body is [phone, pincode, items, paymentMethod, fieldsValid];  *)
(* fieldsValid is the outcome of the validators of the fields the model    *)
(* does not carry (name, phone format, address lines, delivery slot).      *)
(***************************************************************************)
MIN_QUANTITY == 1
MAX_QUANTITY == 100

\* the chain on address.pincode: trim, notEmpty, matches
PincodeAccepted(pincode) ==
    /\ Trim(pincode) # <<>>
    /\ PincodeMatches(Trim(pincode))

\* the chains on items.* without isArray({ min: 1 })
ItemsAcceptedNoMin(items) ==
    \A i \in 1..Len(items) :
        /\ items[i].productId # ""
        /\ items[i].packSize # ""
        /\ items[i].quantity >= MIN_QUANTITY
        /\ items[i].quantity <= MAX_QUANTITY

\* the chains on items and items.*
ItemsAccepted(items) ==
    /\ Len(items) >= 1
    /\ \A i \in 1..Len(items) :
          /\ items[i].productId # ""
          /\ items[i].packSize # ""
          /\ items[i].quantity >= MIN_QUANTITY
          /\ items[i].quantity <= MAX_QUANTITY

\* handleValidationErrors lets the request through
validateOrder(body) ==
    /\ body.fieldsValid
    /\ PincodeAccepted(body.pincode)
    /\ ItemsAccepted(body.items)
    /\ body.paymentMethod \in {"online", "cod"}

\* the body the controller sees: sanitizers have rewritten the fields
Sanitized(body) == [body EXCEPT !.pincode = Trim(@)]

(***************************************************************************)
(* createOrder: server-side price re-validation.                           *)
(***************************************************************************)
\* some item has no catalog price: the loop returns 400
HasInvalidProduct(items) ==
    \E i \in 1..Len(items) :
        getProductPrice(items[i].productId, items[i].packSize) = NoPrice

\* an item that keeps the price the client sent
ValidatedItemClientPrice(item) ==
    [productId |-> item.productId,
     name |-> item.name,
     packSize |-> item.packSize,
     quantity |-> item.quantity,
     price |-> item.price,
     total |-> item.price * item.quantity]

\* one validated item
ValidatedItem(item) ==
    [productId |-> item.productId,
     name |-> item.name,
     packSize |-> item.packSize,
     quantity |-> item.quantity,
     price |-> getProductPrice(item.productId, item.packSize),
     total |-> getProductPrice(item.productId, item.packSize) * item.quantity]

\* validatedItems after the loop
ValidatedItems(items) == [i \in 1..Len(items) |-> ValidatedItem(items[i])]

\* free delivery only strictly above the threshold
DeliveryChargeForStrict(subtotal) ==
    IF subtotal > FREE_DELIVERY_ABOVE THEN 0 ELSE DELIVERY_CHARGE

DeliveryChargeFor(subtotal) ==
    IF subtotal >= FREE_DELIVERY_ABOVE THEN 0 ELSE DELIVERY_CHARGE

\* every order starts pending
InitialStatusPending(paymentMethod) == "pending"

\* initial status by payment method
InitialStatus(paymentMethod) ==
    IF paymentMethod = "cod" THEN "confirmed" ELSE "pending"

\* a statusHistory entry; note is NULL when the code writes none
Entry(status, note) == [status |-> status, note |-> note]

\* a fresh customer row
NewCustomer == [addresses |-> {}, orders |-> {}, totalSpent |-> 0]

\* the row prisma.order.create writes
PrismaOrder(orderId, body) ==
    LET items == ValidatedItems(body.items)
        subtotal == SumTotals(items)
        deliveryCharge == DeliveryChargeFor(subtotal)
    IN [orderId |-> orderId,
        phone |-> body.phone,
        pincode |-> body.pincode,
        items |-> items,
        subtotal |-> subtotal,
        deliveryCharge |-> deliveryCharge,
        total |-> subtotal + deliveryCharge,
        paymentMethod |-> IF body.paymentMethod = "cod" THEN "COD" ELSE "ONLINE",
        paymentStatus |-> "PENDING",
        status |-> Upper[InitialStatus(body.paymentMethod)],
        razorpayOrderId |-> NULL,
        razorpayPaymentId |-> NULL,
        razorpaySignature |-> NoSig,
        statusHistory |-> <<Entry(Upper[InitialStatus(body.paymentMethod)], NULL)>>]

Response(op, status, orderId) ==
    [op |-> op, status |-> status, success |-> status \in {200, 201},
     orderId |-> orderId]

\* createOrder, relational backend
CreateOrderPrisma(body, orderId) ==
    /\ backend = "prisma"
    /\ req' = [op |-> "createOrder", body |-> body]
    /\ UNCHANGED <<config, browser, calls, gatewayOrders>>
    /\ IF ~validateOrder(body)
       THEN /\ res' = Response("createOrder", 400, NULL)
            /\ UNCHANGED <<orders, customers>>
       ELSE IF HasInvalidProduct(Sanitized(body).items)
       THEN /\ res' = Response("createOrder", 400, NULL)
            /\ UNCHANGED <<orders, customers>>
       ELSE \* find or create the customer, then create the order
            /\ customers' = IF body.phone \in DOMAIN customers THEN customers
                             ELSE customers @@ (body.phone :> NewCustomer)
            /\ IF orderId \in DOMAIN orders
               THEN \* unique constraint on orderId: create throws
                    /\ res' = Response("createOrder", 500, NULL)
                    /\ UNCHANGED orders
               ELSE /\ orders' = orders @@
                                   (orderId :> PrismaOrder(orderId, Sanitized(body)))
                    /\ res' = Response("createOrder", 201, orderId)

(***************************************************************************)
(* The Order document model (Mongoose backend).                            *)
(***************************************************************************)
PaymentStatusEnum == {"pending", "paid", "failed", "refunded"}
\* an enum that also lists shipped
StatusEnumWithShipped ==
    {"pending", "confirmed", "processing", "dispatched", "delivered", "cancelled",
     "shipped"}

StatusEnum ==
    {"pending", "confirmed", "processing", "dispatched", "delivered", "cancelled"}

\* schema validation, run by save() before the pre('save') hook.  doc.valid is
\* the outcome of the validators on the fields the model does not carry.
ValidateOrderDoc(doc) ==
    /\ doc.valid
    /\ doc.pincode # <<>>
    /\ PincodeMatches(doc.pincode)
    /\ Len(doc.items) > 0
    /\ \A i \in 1..Len(doc.items) :
          /\ doc.items[i].productId \notin {"", NULL}
          /\ doc.items[i].name \notin {"", NULL}
          /\ doc.items[i].packSize \notin {"", NULL}
          /\ doc.items[i].quantity >= 1
          /\ doc.items[i].price >= 0
    /\ doc.subtotal >= 0
    /\ doc.deliveryCharge >= 0
    /\ doc.total >= 0
    /\ doc.paymentMethod \in {"online", "cod"}
    /\ doc.paymentStatus \in PaymentStatusEnum
    /\ doc.status \in StatusEnum

\* items with the totals they came with
RecomputedItemsKept(items) == items

\* items with every total recomputed
RecomputedItems(items) ==
    [i \in 1..Len(items) |->
        [items[i] EXCEPT !.total = items[i].price * items[i].quantity]]

\* a pre('save') hook that recomputes the totals and records nothing
PreSaveTotalsOnly(doc, statusModified) ==
    LET items == RecomputedItems(doc.items)
        subtotal == SumTotals(items)
    IN [doc EXCEPT
          !.items = items,
          !.subtotal = subtotal,
          !.total = subtotal + doc.deliveryCharge]

\* orderSchema.pre('save'): totals, then a history entry when status is modified
PreSave(doc, statusModified) ==
    LET items == RecomputedItems(doc.items)
        subtotal == SumTotals(items)
    IN [doc EXCEPT
          !.items = items,
          !.subtotal = subtotal,
          !.total = subtotal + doc.deliveryCharge,
          !.statusHistory = IF statusModified
                            THEN Append(@, Entry(doc.status, NULL))
                            ELSE @]

\* the document new Order({...}) of createOrder builds, before save
MongooseOrder(orderId, body) ==
    LET items == ValidatedItems(body.items)
        subtotal == SumTotals(items)
        deliveryCharge == DeliveryChargeFor(subtotal)
    IN [orderId |-> orderId,
        phone |-> body.phone,
        pincode |-> body.pincode,
        items |-> items,
        subtotal |-> subtotal,
        deliveryCharge |-> deliveryCharge,
        total |-> subtotal + deliveryCharge,
        paymentMethod |-> body.paymentMethod,
        paymentStatus |-> IF body.paymentMethod = "cod" THEN "pending" ELSE "pending",
        status |-> InitialStatus(body.paymentMethod),
        razorpayOrderId |-> NULL,
        razorpayPaymentId |-> NULL,
        razorpaySignature |-> NoSig,
        statusHistory |-> <<Entry(InitialStatus(body.paymentMethod), NULL)>>,
        valid |-> TRUE]

\* the stored form of a document (the validation outcome is not a field)
Stored(doc) == [f \in (DOMAIN doc) \ {"valid"} |-> doc[f]]

\* Customer.findOrCreate, addAddress when new, recordOrder
RecordCustomer(phone, pincode, orderId, total) ==
    LET c == IF phone \in DOMAIN customers THEN customers[phone] ELSE NewCustomer
        c2 == [c EXCEPT !.addresses = @ \cup {pincode},
                        !.orders = @ \cup {orderId},
                        !.totalSpent = @ + total]
    IN [ph \in (DOMAIN customers) \cup {phone} |->
          IF ph = phone THEN c2 ELSE customers[ph]]

\* createOrder, document backend
CreateOrderMongoose(body, orderId) ==
    /\ backend = "mongoose"
    /\ req' = [op |-> "createOrder", body |-> body]
    /\ UNCHANGED <<config, browser, calls, gatewayOrders>>
    /\ IF ~validateOrder(body)
       THEN /\ res' = Response("createOrder", 400, NULL)
            /\ UNCHANGED <<orders, customers>>
       ELSE IF HasInvalidProduct(Sanitized(body).items)
       THEN /\ res' = Response("createOrder", 400, NULL)
            /\ UNCHANGED <<orders, customers>>
       ELSE LET doc == MongooseOrder(orderId, Sanitized(body))
            IN IF ~ValidateOrderDoc(doc) \/ orderId \in DOMAIN orders
               THEN \* save() throws (validation or duplicate key): 500
                    /\ res' = Response("createOrder", 500, NULL)
                    /\ UNCHANGED <<orders, customers>>
               ELSE /\ orders' = orders @@ (orderId :> Stored(PreSave(doc, TRUE)))
                    /\ customers' = RecordCustomer(doc.phone, doc.pincode, orderId,
                                                   PreSave(doc, TRUE).total)
                    /\ res' = Response("createOrder", 201, orderId)

\* new Order(data).save() called on the model directly (as the model tests
\* do): status and paymentStatus take their schema defaults
OrderSave(data, orderId) ==
    LET doc == [orderId |-> orderId,
                phone |-> data.phone,
                pincode |-> data.pincode,
                items |-> data.items,
                subtotal |-> data.subtotal,
                deliveryCharge |-> data.deliveryCharge,
                total |-> data.total,
                paymentMethod |-> data.paymentMethod,
                paymentStatus |-> "pending",
                status |-> "pending",
                razorpayOrderId |-> NULL,
                razorpayPaymentId |-> NULL,
                razorpaySignature |-> NoSig,
                statusHistory |-> <<>>,
                valid |-> data.valid]
    IN /\ backend = "mongoose"
       /\ req' = [op |-> "Order.save", body |-> data]
       /\ UNCHANGED <<config, browser, calls, gatewayOrders, customers>>
       /\ IF ~ValidateOrderDoc(doc) \/ orderId \in DOMAIN orders
          THEN \* the promise rejects
               /\ res' = Response("Order.save", 500, NULL)
               /\ UNCHANGED orders
          ELSE /\ orders' = orders @@ (orderId :> Stored(PreSave(doc, FALSE)))
               /\ res' = Response("Order.save", 201, orderId)

(***************************************************************************)
(* Requests of the order-placement runs.                                   *)
(***************************************************************************)
Item(productId, name, packSize, quantity, price) ==
    [productId |-> productId, name |-> name, packSize |-> packSize,
     quantity |-> quantity, price |-> price]

Chars(str) ==
    CASE str = "560001" -> <<"5", "6", "0", "0", "0", "1">>
      [] str = "560038" -> <<"5", "6", "0", "0", "3", "8">>
      [] str = " 560001 " -> <<" ", "5", "6", "0", "0", "0", "1", " ">>
      [] str = "400001" -> <<"4", "0", "0", "0", "0", "1">>
      [] str = "56000" -> <<"5", "6", "0", "0", "0">>
      [] str = "5600011" -> <<"5", "6", "0", "0", "0", "1", "1">>
      [] str = "56000a" -> <<"5", "6", "0", "0", "0", "a">>
      [] str = "   " -> <<" ", " ", " ">>
      [] str = "" -> <<>>

Pincodes ==
    {Chars(str) : str \in {"560001", "560038", " 560001 ", "400001", "56000",
                           "5600011", "56000a", "   ", ""}}

Cardamom(q) == Item("cardamom", "Green Cardamom", "50g", q, 280)
Cloves == Item("cloves", "Cloves", "25g", 1, 220)
Pepper == Item("pepper", "Black Pepper", "100g", 1, 150)
\* the client sends its own price
Tampered == Item("cardamom", "Green Cardamom", "50g", 1, 1)
UnknownProduct == Item("saffron", "Saffron", "1g", 1, 5)
UnknownPack == Item("cardamom", "Green Cardamom", "1kg", 1, 280)
NoName == Item("cloves", NULL, "25g", 1, 220)

BadQuantityItems ==
    {Item("pepper", "Black Pepper", "100g", q, 150) : q \in {0, MAX_QUANTITY + 1}}

\* items arrays: empty, one line of each kind, two lines
ItemLists ==
    {<<>>}
    \cup {<<Cardamom(q)>> : q \in 1..MaxQty}
    \cup {<<i>> : i \in BadQuantityItems
                          \cup {Pepper, Tampered, UnknownProduct, UnknownPack, NoName}}
    \cup {<<Cardamom(1), Cloves>>, <<Cardamom(1), UnknownProduct>>,
          <<Tampered, Cloves>>}

Body(phone, pincode, items, paymentMethod, fieldsValid) ==
    [phone |-> phone, pincode |-> pincode, items |-> items,
     paymentMethod |-> paymentMethod, fieldsValid |-> fieldsValid]

\* bodies of POST /api/orders: a well-formed body with one part varied at a time
OrderBodies ==
    {Body("9876543210", Chars("560001"), items, "cod", TRUE) : items \in ItemLists}
    \cup {Body("9876543210", Chars("560001"), items, "online", TRUE) :
            items \in {<<Pepper>>, <<Tampered, Cloves>>}}
    \cup {Body("9876543210", p, <<Cardamom(1)>>, "cod", TRUE) : p \in Pincodes}
    \cup {Body("9123456789", Chars("560038"), <<Cloves>>, "upi", TRUE),
          Body("9123456789", Chars("560038"), <<Cloves>>, "cod", FALSE)}

Data(pincode, items, deliveryCharge, valid) ==
    [phone |-> "9876543210", pincode |-> pincode, items |-> items,
     subtotal |-> 0, deliveryCharge |-> deliveryCharge, total |-> 0,
     paymentMethod |-> "cod", valid |-> valid]

\* constructor data of the model tests: totals are supplied wrong on purpose
OrderData ==
    {Data(p, <<Cardamom(MaxQty) @@ [total |-> 0]>>, DELIVERY_CHARGE, TRUE) :
        p \in Pincodes}
    \cup {Data(Chars("560001"), items, d, TRUE) :
            items \in {<<>>,
                       <<Cardamom(1) @@ [total |-> 0], Pepper @@ [total |-> 999]>>},
            d \in {0, DELIVERY_CHARGE}}
    \cup {Data(Chars("560001"), <<Pepper @@ [total |-> 150]>>, 0, FALSE)}

(***************************************************************************)
(* Order placement on its own: every body of OrderBodies, both backends,   *)
(* payment fully configured.                                               *)
(***************************************************************************)
NoRequest == [op |-> "none"]

InitCreate ==
    /\ backend \in Backends
    /\ keyId = "rzp_key_id"
    /\ keySecret = "key_secret"
    /\ webhookSecret = "webhook_secret"
    /\ orders = <<>>
    /\ customers = <<>>
    /\ gatewayOrders = {}
    /\ req = NoRequest
    /\ res = Response("none", 0, NULL)
    /\ cart = <<>>
    /\ savedItems = <<>>
    /\ calls = [c \in Calls |-> Idle]

NextCreate ==
    \/ \E body \in OrderBodies, orderId \in OrderIds :
          CreateOrderPrisma(body, orderId)
    \/ \E body \in OrderBodies, orderId \in OrderIds :
          CreateOrderMongoose(body, orderId)
    \/ \E data \in OrderData, orderId \in OrderIds :
          OrderSave(data, orderId)

SpecCreate == InitCreate /\ [][NextCreate]_vars

(***************************************************************************)
(* Signatures.  HMAC-SHA256 is an ideal keyed hash: the digest stands for   *)
(* the pair of key and message, so two digests are equal exactly when key  *)
(* and message are.  A message is the sequence of its parts.               *)
(***************************************************************************)
Hmac(secret, message) == <<"hmac-sha256", secret, message>>

\* `${razorpay_order_id}|${razorpay_payment_id}`
VerifyMessage(razorpay_order_id, razorpay_payment_id) ==
    <<razorpay_order_id, "|", razorpay_payment_id>>

\* JSON.stringify(req.body) of a webhook event
Stringify(body) == <<"event", body.event, "order_id", body.order_id,
                     "payment_id", body.payment_id>>

\* exploration bound: order o can take n more statusHistory entries
HistoryRoom(o, n) == Len(o.statusHistory) + n <= MaxHistory

\* exploration bound: the statusHistory of the written order o is not too long
WithinBound(o) == Len(o.statusHistory) <= MaxHistory

(***************************************************************************)
(* cancelOrder: POST /api/orders/:orderId/cancel                           *)
(***************************************************************************)
\* reason || 'Cancelled by customer'
CancelNote(reason) ==
    IF reason = NULL \/ reason = "" THEN "Cancelled by customer" ELSE reason

\* a list that lets an order in processing be cancelled too
cancellableStatusesWithProcessing(b) ==
    {Enum(b, "pending"), Enum(b, "confirmed"), Enum(b, "processing")}

\* cancellableStatuses of the handler of backend b
cancellableStatuses(b) == {Enum(b, "pending"), Enum(b, "confirmed")}

\* orderSchema.methods.updateStatus followed by the save it calls
updateStatus(o, newStatus, note) ==
    LET set == [o EXCEPT !.status = newStatus,
                         !.statusHistory = Append(@, Entry(newStatus, note))]
    IN Stored(PreSave(set @@ [valid |-> TRUE], newStatus # o.status))

CancelOrderPrisma(orderId, reason) ==
    /\ backend = "prisma"
    /\ req' = [op |-> "cancelOrder", orderId |-> orderId, reason |-> reason]
    /\ UNCHANGED <<config, browser, calls, gatewayOrders, customers>>
    /\ IF orderId \notin DOMAIN orders
       THEN /\ res' = Response("cancelOrder", 404, orderId)
            /\ UNCHANGED orders
       ELSE IF orders[orderId].status \notin cancellableStatuses("prisma")
       THEN /\ res' = Response("cancelOrder", 400, orderId)
            /\ UNCHANGED orders
       ELSE /\ HistoryRoom(orders[orderId], 1)
            /\ orders' = [orders EXCEPT ![orderId] =
                  [@ EXCEPT !.status = "CANCELLED",
                            !.statusHistory =
                                Append(@, Entry("CANCELLED", CancelNote(reason)))]]
            /\ res' = Response("cancelOrder", 200, orderId)

CancelOrderMongoose(orderId, reason) ==
    /\ backend = "mongoose"
    /\ req' = [op |-> "cancelOrder", orderId |-> orderId, reason |-> reason]
    /\ UNCHANGED <<config, browser, calls, gatewayOrders, customers>>
    /\ IF orderId \notin DOMAIN orders
       THEN /\ res' = Response("cancelOrder", 404, orderId)
            /\ UNCHANGED orders
       ELSE IF orders[orderId].status \notin cancellableStatuses("mongoose")
       THEN /\ res' = Response("cancelOrder", 400, orderId)
            /\ UNCHANGED orders
       ELSE /\ HistoryRoom(orders[orderId], 2)
            /\ orders' = [orders EXCEPT ![orderId] =
                  updateStatus(@, "cancelled", CancelNote(reason))]
            /\ res' = Response("cancelOrder", 200, orderId)

(***************************************************************************)
(* Fulfilment.  The repository has no handler that moves an order to       *)
(* processing, dispatched or delivered; the back office does it through    *)
(* the database client (the tests drive it through updateStatus and        *)
(* prisma.order.update).  The model lets it move an order one stage        *)
(* forward.                                                                *)
(***************************************************************************)
NextStage(status) ==
    CASE status = "confirmed" -> "processing"
      [] status = "processing" -> "dispatched"
      [] status = "dispatched" -> "delivered"

Lower(status) == CHOOSE s \in StatusEnum : status \in {s, Upper[s]}

Fulfil(orderId) ==
    /\ orderId \in DOMAIN orders
    /\ Lower(orders[orderId].status) \in {"confirmed", "processing", "dispatched"}
    /\ HistoryRoom(orders[orderId], IF backend = "prisma" THEN 1 ELSE 2)
    /\ req' = [op |-> "fulfil", orderId |-> orderId]
    /\ res' = Response("fulfil", 200, orderId)
    /\ UNCHANGED <<config, browser, calls, gatewayOrders, customers>>
    /\ LET stage == NextStage(Lower(orders[orderId].status))
       IN orders' = [orders EXCEPT ![orderId] =
            IF backend = "prisma"
            THEN [@ EXCEPT !.status = Upper[stage],
                           !.statusHistory = Append(@, Entry(Upper[stage], NULL))]
            ELSE updateStatus(@, stage, "")]

(***************************************************************************)
(* createRazorpayOrder: POST /api/payments/create-order                    *)
(*                                                                         *)
(* Amounts of money in a request are counted in hundredths of a rupee, so  *)
(* that a request can carry 240.49; stored totals are whole rupees.        *)
(***************************************************************************)
\* rounding that drops the fraction
RoundDown(hundredths) == hundredths \div 100

\* Math.round of a non-negative amount given in hundredths
Round(hundredths) == (hundredths + 50) \div 100

\* isRazorpayConfigured && razorpayInstance
RazorpayConfigured == keyId # NULL /\ keySecret # NULL

\* order.save() of a loaded document whose status was not assigned
SaveLoaded(o) == Stored(PreSave(o @@ [valid |-> TRUE], FALSE))

\* both backends: the handlers differ only in how the order is written back
CreateRazorpayOrder(orderId, amount, razorpayOrderId) ==
    /\ req' = [op |-> "createRazorpayOrder", orderId |-> orderId, amount |-> amount]
    /\ UNCHANGED <<config, browser, calls, customers>>
    /\ IF orderId = NULL \/ amount = 0
       THEN /\ res' = Response("createRazorpayOrder", 400, orderId)
            /\ UNCHANGED <<orders, gatewayOrders>>
       ELSE IF orderId \notin DOMAIN orders
       THEN /\ res' = Response("createRazorpayOrder", 404, orderId)
            /\ UNCHANGED <<orders, gatewayOrders>>
       ELSE IF Round(amount) # Round(orders[orderId].total * 100)
       THEN /\ res' = Response("createRazorpayOrder", 400, orderId)
            /\ UNCHANGED <<orders, gatewayOrders>>
       ELSE IF ~RazorpayConfigured
       THEN /\ res' = Response("createRazorpayOrder", 503, orderId)
            /\ UNCHANGED <<orders, gatewayOrders>>
       ELSE \* the gateway creates its order under an identifier of its own
            /\ razorpayOrderId \notin gatewayOrders
            /\ gatewayOrders' = gatewayOrders \cup {razorpayOrderId}
            /\ orders' = [orders EXCEPT ![orderId] =
                  IF backend = "prisma"
                  THEN [@ EXCEPT !.razorpayOrderId = razorpayOrderId]
                  ELSE SaveLoaded([@ EXCEPT !.razorpayOrderId = razorpayOrderId])]
            /\ res' = Response("createRazorpayOrder", 200, orderId)

(***************************************************************************)
(* verifyPayment: POST /api/payments/verify                                *)
(***************************************************************************)
VerifyRequest(orderId, razorpay_order_id, razorpay_payment_id, razorpay_signature) ==
    [op |-> "verifyPayment", orderId |-> orderId,
     razorpay_order_id |-> razorpay_order_id,
     razorpay_payment_id |-> razorpay_payment_id,
     razorpay_signature |-> razorpay_signature]

\* the signature check that accepts everything
SignatureMatchesAlways(r) == TRUE

\* the signature check that accepts the digest of any payment of the order
SignatureMatchesAnyPayment(r) ==
    \E pid \in PaymentIds :
        Hmac(keySecret, VerifyMessage(r.razorpay_order_id, pid)) = r.razorpay_signature

\* expectedSignature === razorpay_signature
SignatureMatches(r) ==
    Hmac(keySecret, VerifyMessage(r.razorpay_order_id, r.razorpay_payment_id))
        = r.razorpay_signature

\* a markAsPaid that leaves the status of the order alone
markAsPaidKeepStatus(o, paymentId, signature) ==
    LET set == [o EXCEPT !.paymentStatus = "paid",
                         !.razorpayPaymentId = paymentId,
                         !.razorpaySignature = signature]
    IN Stored(PreSave(set @@ [valid |-> TRUE], FALSE))

\* orderSchema.methods.markAsPaid followed by the save it calls
markAsPaid(o, paymentId, signature) ==
    LET set == [o EXCEPT !.paymentStatus = "paid",
                         !.razorpayPaymentId = paymentId,
                         !.razorpaySignature = signature,
                         !.status = "confirmed"]
    IN Stored(PreSave(set @@ [valid |-> TRUE], o.status # "confirmed"))

VerifyPaymentPrisma(r) ==
    /\ backend = "prisma"
    /\ req' = r
    /\ UNCHANGED <<config, browser, calls, gatewayOrders, customers>>
    /\ IF r.orderId \notin DOMAIN orders
       THEN /\ res' = Response("verifyPayment", 404, r.orderId)
            /\ UNCHANGED orders
       ELSE IF keySecret = NULL
       THEN /\ res' = Response("verifyPayment", 503, r.orderId)
            /\ UNCHANGED orders
       ELSE IF ~SignatureMatches(r)
       THEN /\ orders' = [orders EXCEPT ![r.orderId].paymentStatus = "FAILED"]
            /\ res' = Response("verifyPayment", 400, r.orderId)
       ELSE /\ HistoryRoom(orders[r.orderId], 1)
            /\ orders' = [orders EXCEPT ![r.orderId] =
                  [@ EXCEPT !.paymentStatus = "PAID",
                            !.razorpayPaymentId = r.razorpay_payment_id,
                            !.razorpaySignature = r.razorpay_signature,
                            !.status = "CONFIRMED",
                            !.statusHistory =
                                Append(@, Entry("CONFIRMED", "Payment verified"))]]
            /\ res' = Response("verifyPayment", 200, r.orderId)

VerifyPaymentMongoose(r) ==
    /\ backend = "mongoose"
    /\ req' = r
    /\ UNCHANGED <<config, browser, calls, gatewayOrders, customers>>
    /\ IF r.orderId \notin DOMAIN orders
       THEN /\ res' = Response("verifyPayment", 404, r.orderId)
            /\ UNCHANGED orders
       ELSE IF keySecret = NULL
       THEN /\ res' = Response("verifyPayment", 503, r.orderId)
            /\ UNCHANGED orders
       ELSE IF ~SignatureMatches(r)
       THEN /\ orders' = [orders EXCEPT ![r.orderId] =
                  SaveLoaded([@ EXCEPT !.paymentStatus = "failed"])]
            /\ res' = Response("verifyPayment", 400, r.orderId)
       ELSE /\ WithinBound(markAsPaid(orders[r.orderId], r.razorpay_payment_id,
                                       r.razorpay_signature))
            /\ orders' = [orders EXCEPT ![r.orderId] =
                  markAsPaid(@, r.razorpay_payment_id, r.razorpay_signature)]
            /\ res' = Response("verifyPayment", 200, r.orderId)

(***************************************************************************)
(* handleWebhook: POST /api/payments/webhook                               *)
(*                                                                         *)
(* An event body is [event, order_id, payment_id]: order_id and payment_id *)
(* stand for payment.entity.order_id and payment.entity.id of a payment    *)
(* event, payment_id for refund.entity.payment_id of a refund event.       *)
(***************************************************************************)
Event(event, order_id, payment_id) ==
    [event |-> event, order_id |-> order_id, payment_id |-> payment_id]

\* the orders findFirst / findOne can return for the event
Candidates(body) ==
    CASE body.event \in {"payment.captured", "payment.failed"} ->
            {id \in DOMAIN orders : orders[id].razorpayOrderId = body.order_id}
      [] body.event = "refund.processed" ->
            {id \in DOMAIN orders : orders[id].razorpayPaymentId = body.payment_id}
      [] OTHER -> {}

\* handlePaymentCaptured / handlePaymentFailed / handleRefundProcessed, Prisma
ApplyEventPrisma(o, body) ==
    CASE body.event = "payment.captured" ->
            IF o.paymentStatus # "PAID"
            THEN [o EXCEPT !.razorpayPaymentId = body.payment_id,
                           !.paymentStatus = "PAID",
                           !.status = "CONFIRMED",
                           !.statusHistory =
                               Append(@, Entry("CONFIRMED",
                                               "Payment captured via webhook"))]
            ELSE o
      [] body.event = "payment.failed" -> [o EXCEPT !.paymentStatus = "FAILED"]
      [] body.event = "refund.processed" ->
            [o EXCEPT !.paymentStatus = "REFUNDED",
                      !.status = "CANCELLED",
                      !.statusHistory =
                          Append(@, Entry("CANCELLED", "Refund processed"))]

\* the same three helpers, Mongoose
ApplyEventMongoose(o, body) ==
    CASE body.event = "payment.captured" ->
            IF o.paymentStatus # "paid"
            THEN Stored(PreSave([o EXCEPT !.razorpayPaymentId = body.payment_id,
                                          !.paymentStatus = "paid",
                                          !.status = "confirmed"]
                                   @@ [valid |-> TRUE],
                                o.status # "confirmed"))
            ELSE o
      [] body.event = "payment.failed" ->
            SaveLoaded([o EXCEPT !.paymentStatus = "failed"])
      [] body.event = "refund.processed" ->
            updateStatus([o EXCEPT !.paymentStatus = "refunded"],
                         "cancelled", "Refund processed")

\* the header check that accepts every header that is present
HeaderMatchesAlways(body, header) == TRUE

\* signature === expectedSignature
HeaderMatches(body, header) == header = Hmac(webhookSecret, Stringify(body))

\* both backends; target is the order the lookup returned, NULL for none
HandleWebhook(body, header, target) ==
    /\ req' = [op |-> "webhook", body |-> body, header |-> header]
    /\ UNCHANGED <<config, browser, calls, gatewayOrders, customers>>
    /\ IF webhookSecret = NULL
       THEN /\ target = NULL
            /\ res' = Response("webhook", 503, NULL)
            /\ UNCHANGED orders
       ELSE IF header = NoSig
       THEN /\ target = NULL
            /\ res' = Response("webhook", 400, NULL)
            /\ UNCHANGED orders
       ELSE IF ~HeaderMatches(body, header)
       THEN /\ target = NULL
            /\ res' = Response("webhook", 401, NULL)
            /\ UNCHANGED orders
       ELSE /\ IF Candidates(body) = {} THEN target = NULL
                                        ELSE target \in Candidates(body)
            /\ res' = Response("webhook", 200, target)
            /\ IF target = NULL
               THEN UNCHANGED orders
               ELSE LET written == IF backend = "prisma"
                                   THEN ApplyEventPrisma(orders[target], body)
                                   ELSE ApplyEventMongoose(orders[target], body)
                    IN /\ WithinBound(written)
                       /\ orders' = [orders EXCEPT ![target] = written]

(***************************************************************************)
(* The order lifecycle: placement, payment, fulfilment and cancellation    *)
(* over HTTP, under each payment configuration a deployment can have.      *)
(***************************************************************************)
Config(id, secret, hook) ==
    [keyId |-> id, keySecret |-> secret, webhookSecret |-> hook]

\* RAZORPAY_KEY_ID, RAZORPAY_KEY_SECRET, RAZORPAY_WEBHOOK_SECRET: all set, or
\* one of them missing
Configs ==
    {Config("rzp_key_id", "key_secret", "webhook_secret"),
     Config(NULL, "key_secret", "webhook_secret"),
     Config("rzp_key_id", NULL, "webhook_secret"),
     Config("rzp_key_id", "key_secret", NULL)}

\* secrets a sender can sign with: the two of the server and one of its own
Secrets == {"key_secret", "webhook_secret", "attacker_secret"}

CodBody == Body("9876543210", Chars("560001"), <<Cardamom(1)>>, "cod", TRUE)
OnlineBody ==
    Body("9876543210", Chars("560038"), <<Cardamom(1), Cloves>>, "online", TRUE)

\* amounts in hundredths: none, the total of OnlineBody, and amounts that
\* round to it and away from it
Amounts == {0, 50000, 50049, 50050}

\* the digest the payment gateway hands the client for a payment
ValidSignature(roid, pid) == Hmac("key_secret", VerifyMessage(roid, pid))

\* verifyPayment bodies: the gateway's digest for the identifiers sent; and,
\* for one payment, no signature, a digest under another secret, and the
\* gateway's digest for another payment
VerifyRequests ==
    {VerifyRequest(id, roid, pid, ValidSignature(roid, pid)) :
        id \in OrderIds, roid \in RzpOrderIds, pid \in PaymentIds}
    \cup {VerifyRequest(id, "order_A", "pay_1", sig) :
            id \in OrderIds,
            sig \in {NoSig, ValidSignature("order_A", "pay_2")}
                    \cup {Hmac(k, VerifyMessage("order_A", "pay_1")) :
                            k \in Secrets \ {"key_secret"}}}

Events ==
    {Event(e, roid, pid) :
        e \in {"payment.captured", "payment.failed", "refund.processed"},
        roid \in RzpOrderIds, pid \in PaymentIds}
    \cup {Event("order.paid", "order_A", "pay_1")}

\* the digest the payment gateway sends with an event
ValidHeader(body) == Hmac("webhook_secret", Stringify(body))

\* webhook deliveries, body and x-razorpay-signature: the gateway's digest of
\* the body; and, for one event, no header, a digest under another secret,
\* and the gateway's digest of another event
Deliveries ==
    {<<body, ValidHeader(body)>> : body \in Events}
    \cup {<<Event("payment.captured", "order_A", "pay_1"), header>> :
            header \in {NoSig,
                        ValidHeader(Event("payment.failed", "order_A", "pay_1"))}
                       \cup {Hmac(k, Stringify(Event("payment.captured",
                                                     "order_A", "pay_1"))) :
                               k \in Secrets \ {"webhook_secret"}}}

InitLifecycle ==
    /\ backend \in Backends
    /\ \E c \in Configs : /\ keyId = c.keyId
                          /\ keySecret = c.keySecret
                          /\ webhookSecret = c.webhookSecret
    /\ orders = <<>>
    /\ customers = <<>>
    /\ gatewayOrders = {}
    /\ req = NoRequest
    /\ res = Response("none", 0, NULL)
    /\ cart = <<>>
    /\ savedItems = <<>>
    /\ calls = [c \in Calls |-> Idle]

(***************************************************************************)
(* Payment: an online order is placed, handed to the gateway, verified by  *)
(* the client and confirmed, failed or refunded by webhook.  One order is  *)
(* placed; requests name it or an order that does not exist.               *)
(***************************************************************************)
PayOrderIds == {"TW-1"}

NextPay ==
    \/ \E orderId \in PayOrderIds : CreateOrderPrisma(OnlineBody, orderId)
    \/ \E orderId \in PayOrderIds : CreateOrderMongoose(OnlineBody, orderId)
    \/ \E orderId \in OrderIds \cup {NULL}, amount \in Amounts,
          razorpayOrderId \in RzpOrderIds :
          CreateRazorpayOrder(orderId, amount, razorpayOrderId)
    \/ \E r \in VerifyRequests : VerifyPaymentPrisma(r)
    \/ \E r \in VerifyRequests : VerifyPaymentMongoose(r)
    \/ \E d \in Deliveries, target \in OrderIds \cup {NULL} :
          HandleWebhook(d[1], d[2], target)

SpecPay == InitLifecycle /\ [][NextPay]_vars

(***************************************************************************)
(* Cancellation: orders of both payment methods are placed, paid, moved    *)
(* through fulfilment and cancelled.                                       *)
(***************************************************************************)
Reasons == {NULL, "", "Changed mind"}

\* the gateway's digest for the one payment of these runs
PaidRequests ==
    {VerifyRequest(id, "order_A", "pay_1", ValidSignature("order_A", "pay_1")) :
        id \in OrderIds}

NextCancel ==
    \/ \E body \in {CodBody, OnlineBody}, orderId \in OrderIds :
          CreateOrderPrisma(body, orderId)
    \/ \E body \in {CodBody, OnlineBody}, orderId \in OrderIds :
          CreateOrderMongoose(body, orderId)
    \/ \E r \in PaidRequests : VerifyPaymentPrisma(r)
    \/ \E r \in PaidRequests : VerifyPaymentMongoose(r)
    \/ \E orderId \in OrderIds : Fulfil(orderId)
    \/ \E orderId \in OrderIds, reason \in Reasons :
          CancelOrderPrisma(orderId, reason)
    \/ \E orderId \in OrderIds, reason \in Reasons :
          CancelOrderMongoose(orderId, reason)

SpecCancel == InitLifecycle /\ [][NextCancel]_vars

(***************************************************************************)
(* The Order model driven directly, as the model tests do: documents are   *)
(* saved with totals of the caller's choosing, then updateStatus and       *)
(* markAsPaid are called on them.  save() validates, then runs the         *)
(* pre('save') hook; a rejected save stores nothing.                       *)
(***************************************************************************)
\* order.updateStatus(newStatus, note) on the stored document
ModelUpdateStatus(orderId, newStatus, note) ==
    /\ backend = "mongoose"
    /\ orderId \in DOMAIN orders
    /\ req' = [op |-> "Order.updateStatus", orderId |-> orderId,
               status |-> newStatus, note |-> note]
    /\ UNCHANGED <<config, browser, calls, gatewayOrders, customers>>
    /\ IF ~ValidateOrderDoc([orders[orderId] EXCEPT !.status = newStatus]
                              @@ [valid |-> TRUE])
       THEN \* the promise rejects
            /\ res' = Response("Order.updateStatus", 500, orderId)
            /\ UNCHANGED orders
       ELSE /\ WithinBound(updateStatus(orders[orderId], newStatus, note))
            /\ orders' = [orders EXCEPT ![orderId] = updateStatus(@, newStatus, note)]
            /\ res' = Response("Order.updateStatus", 200, orderId)

\* order.markAsPaid(paymentId, signature) on the stored document
ModelMarkAsPaid(orderId, paymentId, signature) ==
    /\ backend = "mongoose"
    /\ orderId \in DOMAIN orders
    /\ req' = [op |-> "Order.markAsPaid", orderId |-> orderId,
               razorpay_payment_id |-> paymentId,
               razorpay_signature |-> signature]
    /\ UNCHANGED <<config, browser, calls, gatewayOrders, customers>>
    /\ WithinBound(markAsPaid(orders[orderId], paymentId, signature))
    /\ orders' = [orders EXCEPT ![orderId] = markAsPaid(@, paymentId, signature)]
    /\ res' = Response("Order.markAsPaid", 200, orderId)

\* statuses a caller passes to updateStatus: those of the schema and one
\* that is not
StatusArguments == StatusEnum \cup {"shipped"}

Notes == {"", "Order confirmed"}

\* 'sig_test123': a signature nobody computed
TestSignature == <<"sig_test123">>

InitModel ==
    /\ backend = "mongoose"
    /\ keyId = "rzp_key_id"
    /\ keySecret = "key_secret"
    /\ webhookSecret = "webhook_secret"
    /\ orders = <<>>
    /\ customers = <<>>
    /\ gatewayOrders = {}
    /\ req = NoRequest
    /\ res = Response("none", 0, NULL)
    /\ cart = <<>>
    /\ savedItems = <<>>
    /\ calls = [c \in Calls |-> Idle]

NextModel ==
    \/ \E data \in OrderData, orderId \in PayOrderIds : OrderSave(data, orderId)
    \/ \E orderId \in PayOrderIds, newStatus \in StatusArguments, note \in Notes :
          ModelUpdateStatus(orderId, newStatus, note)
    \/ \E orderId \in PayOrderIds, paymentId \in PaymentIds :
          ModelMarkAsPaid(orderId, paymentId, TestSignature)

SpecModel == InitModel /\ [][NextModel]_vars

(***************************************************************************)
(* getOrder: GET /api/orders/:orderId (both backends)                      *)
(***************************************************************************)
\* a getOrder that answers 200 whether or not the order was found
GetOrderFound(orderId) ==
    /\ req' = [op |-> "getOrder", orderId |-> orderId]
    /\ res' = Response("getOrder", 200, orderId)
    /\ UNCHANGED <<config, browser, calls, orders, customers, gatewayOrders>>

GetOrder(orderId) ==
    /\ req' = [op |-> "getOrder", orderId |-> orderId]
    /\ res' = Response("getOrder",
                       IF orderId \in DOMAIN orders THEN 200 ELSE 404, orderId)
    /\ UNCHANGED <<config, browser, calls, orders, customers, gatewayOrders>>

(***************************************************************************)
(* One order through every operation: the handlers of both routers and,    *)
(* on the document backend, the model methods.  Requests name the order    *)
(* placed or an order that does not exist.                                 *)
(***************************************************************************)
\* one payment: its gateway digest, and no signature at all
OrderVerifyRequests ==
    PaidRequests
    \cup {VerifyRequest(id, "order_A", "pay_1", NoSig) : id \in OrderIds}

\* the three handled events of one payment, signed by the gateway, and one
\* signed by somebody else
OrderDeliveries ==
    {<<Event(e, "order_A", "pay_1"), ValidHeader(Event(e, "order_A", "pay_1"))>> :
        e \in {"payment.captured", "payment.failed", "refund.processed"}}
    \cup {<<Event("refund.processed", "order_A", "pay_1"),
            Hmac("attacker_secret",
                 Stringify(Event("refund.processed", "order_A", "pay_1")))>>}

NextOrder ==
    \/ \E body \in {CodBody, OnlineBody}, orderId \in PayOrderIds :
          CreateOrderPrisma(body, orderId)
    \/ \E body \in {CodBody, OnlineBody}, orderId \in PayOrderIds :
          CreateOrderMongoose(body, orderId)
    \/ \E orderId \in OrderIds : GetOrder(orderId)
    \/ \E orderId \in OrderIds, reason \in {NULL, "Changed mind"} :
          CancelOrderPrisma(orderId, reason)
    \/ \E orderId \in OrderIds, reason \in {NULL, "Changed mind"} :
          CancelOrderMongoose(orderId, reason)
    \/ \E orderId \in OrderIds : Fulfil(orderId)
    \/ \E orderId \in OrderIds, amount \in {0, 50000, 50050},
          razorpayOrderId \in RzpOrderIds :
          CreateRazorpayOrder(orderId, amount, razorpayOrderId)
    \/ \E r \in OrderVerifyRequests : VerifyPaymentPrisma(r)
    \/ \E r \in OrderVerifyRequests : VerifyPaymentMongoose(r)
    \/ \E d \in OrderDeliveries, target \in OrderIds \cup {NULL} :
          HandleWebhook(d[1], d[2], target)
    \/ \E orderId \in PayOrderIds, newStatus \in StatusArguments :
          ModelUpdateStatus(orderId, newStatus, "")
    \/ \E orderId \in PayOrderIds : ModelMarkAsPaid(orderId, "pay_2", TestSignature)

SpecOrder == InitLifecycle /\ [][NextOrder]_vars

(***************************************************************************)
(* generateOrderId: the helper of config/prisma.js and the static of the   *)
(* Order model.  The clock is a date [year, month, day]; a value of         *)
(* Math.random() is counted in thousandths.                                *)
(***************************************************************************)
DigitChar == [n \in 0..9 |->
    CASE n = 0 -> "0" [] n = 1 -> "1" [] n = 2 -> "2" [] n = 3 -> "3"
      [] n = 4 -> "4" [] n = 5 -> "5" [] n = 6 -> "6" [] n = 7 -> "7"
      [] n = 8 -> "8" [] n = 9 -> "9"]

Pad2(n) == <<DigitChar[(n \div 10) % 10], DigitChar[n % 10]>>

\* the first ten characters of toISOString(): YYYY-MM-DD
IsoDate(now) ==
    Pad2(now.year \div 100) \o Pad2(now.year % 100) \o <<"-">>
        \o Pad2(now.month) \o <<"-">> \o Pad2(now.day)

\* toISOString().slice(2, 10).replace(/-/g, '')
DateStr(now) == SelectSeq(SubSeq(IsoDate(now), 3, 10), LAMBDA c : c # "-")

\* 'ABCDEFGHJKLMNPQRSTUVWXYZ23456789'
PrismaChars ==
    <<"A", "B", "C", "D", "E", "F", "G", "H", "J", "K", "L", "M", "N", "P", "Q",
      "R", "S", "T", "U", "V", "W", "X", "Y", "Z", "2", "3", "4", "5", "6", "7",
      "8", "9">>

\* 'ABCDEFGHIJKLMNOPQRSTUVWXYZ0123456789'
ModelChars ==
    <<"A", "B", "C", "D", "E", "F", "G", "H", "I", "J", "K", "L", "M", "N", "O",
      "P", "Q", "R", "S", "T", "U", "V", "W", "X", "Y", "Z", "0", "1", "2", "3",
      "4", "5", "6", "7", "8", "9">>

\* the number of random characters of an identifier
ID_RANDOM_LENGTH == 6

\* chars.charAt(Math.floor(Math.random() * chars.length)), once per draw
RandomPart(chars, draws) ==
    [i \in 1..ID_RANDOM_LENGTH |-> chars[((draws[i] * Len(chars)) \div 1000) + 1]]

\* generateOrderId of config/prisma.js
generateOrderId(now, draws) ==
    <<"T", "W", "-">> \o DateStr(now) \o <<"-">> \o RandomPart(PrismaChars, draws)

\* orderSchema.statics.generateOrderId
OrderGenerateOrderId(draws) == <<"T", "W", "-">> \o RandomPart(ModelChars, draws)

\* one call of the generator of the backend
GenerateOrderId(now, draws) ==
    /\ req' = [op |-> "generateOrderId", now |-> now, draws |-> draws]
    /\ res' = Response("generateOrderId", 200,
                       IF backend = "prisma" THEN generateOrderId(now, draws)
                       ELSE OrderGenerateOrderId(draws))
    /\ UNCHANGED <<config, browser, calls, orders, customers, gatewayOrders>>

\* days the clock can show
Dates ==
    {[year |-> 1999, month |-> 12, day |-> 31],
     [year |-> 2005, month |-> 10, day |-> 9],
     [year |-> 2026, month |-> 1, day |-> 20]}

\* values of Math.random(), in thousandths: the least and the greatest
Draws == [1..ID_RANDOM_LENGTH -> {0, 999}]

NextId == \E now \in Dates, draws \in Draws : GenerateOrderId(now, draws)

SpecId == InitCreate /\ [][NextId]_vars

(***************************************************************************)
(* validateCart: POST /api/cart/validate, behind validateCartItems.        *)
(***************************************************************************)
MIN_ORDER_AMOUNT == 200

\* the chains of validateCartItems: a non-empty array, product and pack size
\* not empty, quantity an integer from 1 to 100
CartItemsAccepted(items) ==
    /\ items # <<>>
    /\ \A i \in DOMAIN items :
          /\ items[i].productId # ""
          /\ items[i].packSize # ""
          /\ items[i].quantity \in MIN_QUANTITY..MAX_QUANTITY

\* a line that keeps the price the client sent
CartLineSubmittedPrice(item) ==
    [productId |-> item.productId, name |-> item.name, packSize |-> item.packSize,
     quantity |-> item.quantity, price |-> item.price,
     priceChanged |-> FALSE, originalPrice |-> item.price,
     total |-> item.price * item.quantity]

\* { ...item, price: currentPrice, priceChanged, originalPrice, total }
CartLine(item) ==
    LET currentPrice == getProductPrice(item.productId, item.packSize)
    IN [productId |-> item.productId, name |-> item.name, packSize |-> item.packSize,
        quantity |-> item.quantity, price |-> currentPrice,
        priceChanged |-> item.price # currentPrice, originalPrice |-> item.price,
        total |-> currentPrice * item.quantity]

\* { productId, packSize, error }
CartError(item) ==
    [productId |-> item.productId, packSize |-> item.packSize,
     error |-> "Product or pack size not found"]

RECURSIVE CartLines(_)
\* validatedItems after the loop over items
CartLines(items) ==
    IF items = <<>> THEN <<>>
    ELSE IF getProductPrice(Head(items).productId, Head(items).packSize) = NoPrice
    THEN CartLines(Tail(items))
    ELSE <<CartLine(Head(items))>> \o CartLines(Tail(items))

RECURSIVE CartErrors(_)
\* errors after the loop over items
CartErrors(items) ==
    IF items = <<>> THEN <<>>
    ELSE IF getProductPrice(Head(items).productId, Head(items).packSize) = NoPrice
    THEN <<CartError(Head(items))>> \o CartErrors(Tail(items))
    ELSE CartErrors(Tail(items))

RECURSIVE SumQuantities(_)
SumQuantities(items) ==
    IF items = <<>> THEN 0 ELSE Head(items).quantity + SumQuantities(Tail(items))

\* the summary of the response
CartSummary(validatedItems) ==
    LET subtotal == SumTotals(validatedItems)
        deliveryCharge == IF subtotal >= FREE_DELIVERY_ABOVE THEN 0 ELSE DELIVERY_CHARGE
    IN [itemCount |-> SumQuantities(validatedItems),
        subtotal |-> subtotal,
        deliveryCharge |-> deliveryCharge,
        total |-> subtotal + deliveryCharge,
        isFreeDelivery |-> deliveryCharge = 0,
        meetsMinOrder |-> subtotal >= MIN_ORDER_AMOUNT,
        freeDeliveryRemaining |-> IF FREE_DELIVERY_ABOVE - subtotal > 0
                                  THEN FREE_DELIVERY_ABOVE - subtotal ELSE 0]

\* the response of a refused request
CartRefused == [op |-> "validateCart", status |-> 400, success |-> FALSE]

ValidateCart(items) ==
    /\ req' = [op |-> "validateCart", items |-> items]
    /\ UNCHANGED <<config, browser, calls, orders, customers, gatewayOrders>>
    /\ IF ~CartItemsAccepted(items)
       THEN res' = CartRefused
       ELSE LET validatedItems == CartLines(items)
                errors == CartErrors(items)
            IN res' = [op |-> "validateCart", status |-> 200, success |-> TRUE,
                       valid |-> Len(errors) = 0,
                       items |-> validatedItems,
                       errors |-> errors,
                       summary |-> CartSummary(validatedItems)]

\* the most lines a submitted cart has
MaxCartLines == 3

\* lines a client submits: at the catalog price, at a price of its own, of no
\* product, of no pack size, and with a quantity the validator refuses
CartItems ==
    {Cardamom(1), Cardamom(2), Tampered, UnknownProduct, UnknownPack,
     Item("pepper", "Black Pepper", "100g", 0, 150)}

Carts == UNION {[1..n -> CartItems] : n \in 0..MaxCartLines}

NextCart == \E items \in Carts : ValidateCart(items)

SpecCart == InitCreate /\ [][NextCart]_vars

(***************************************************************************)
(* CartManager (js/cart.js).  cart and savedItems are the two arrays; each  *)
(* operation that changes one ends by writing it to localStorage, so an     *)
(* array stands for its stored copy too.  products is the catalog.          *)
(***************************************************************************)
MaxCartQty == 2
MaxSaved == 2

\* `${productId}_${packSize}`
generateItemId(productId, packSize) == <<productId, "_", packSize>>

\* cart.findIndex(item => item.id === itemId), 0 for -1
FindIndex(lines, itemId) ==
    IF \E i \in DOMAIN lines : lines[i].id = itemId
    THEN CHOOSE i \in DOMAIN lines :
            /\ lines[i].id = itemId
            /\ \A j \in 1..(i - 1) : lines[j].id # itemId
    ELSE 0

\* splice(index, 1)
Splice(lines, index) ==
    [i \in 1..(Len(lines) - 1) |-> IF i < index THEN lines[i] ELSE lines[i + 1]]

CartLineOf(productId, packSize, quantity) ==
    [id |-> generateItemId(productId, packSize), productId |-> productId,
     packSize |-> packSize, price |-> getProductPrice(productId, packSize),
     quantity |-> quantity]

\* an addItem that pushes a line without looking for the id
addItemAlwaysPush(lines, productId, packSize, quantity) ==
    Append(lines, CartLineOf(productId, packSize, quantity))

\* the cart after addItem found the product and its price
addItem(lines, productId, packSize, quantity) ==
    LET index == FindIndex(lines, generateItemId(productId, packSize))
    IN IF index # 0
       THEN [lines EXCEPT ![index].quantity = @ + quantity]
       ELSE Append(lines, CartLineOf(productId, packSize, quantity))

\* what a CartManager method returns
Returned(op, value) == [op |-> op, status |-> 0, success |-> value]

AddItem(productId, packSize, quantity) ==
    /\ req' = [op |-> "addItem", productId |-> productId, packSize |-> packSize,
               quantity |-> quantity]
    /\ UNCHANGED <<config, calls, orders, customers, gatewayOrders, savedItems>>
    /\ IF getProductPrice(productId, packSize) = NoPrice
       THEN res' = Returned("addItem", FALSE) /\ UNCHANGED cart
       ELSE /\ \A i \in DOMAIN addItem(cart, productId, packSize, quantity) :
                  addItem(cart, productId, packSize, quantity)[i].quantity <= MaxCartQty
            /\ cart' = addItem(cart, productId, packSize, quantity)
            /\ res' = Returned("addItem", TRUE)

UpdateQuantity(itemId, quantity) ==
    LET index == FindIndex(cart, itemId)
    IN /\ req' = [op |-> "updateQuantity", itemId |-> itemId, quantity |-> quantity]
       /\ UNCHANGED <<config, calls, orders, customers, gatewayOrders, savedItems>>
       /\ IF index = 0
          THEN res' = Returned("updateQuantity", FALSE) /\ UNCHANGED cart
          ELSE /\ cart' = IF quantity <= 0 THEN Splice(cart, index)
                          ELSE [cart EXCEPT ![index].quantity = quantity]
               /\ res' = Returned("updateQuantity", TRUE)

IncrementQuantity(itemId) ==
    LET index == FindIndex(cart, itemId)
    IN /\ req' = [op |-> "incrementQuantity", itemId |-> itemId]
       /\ UNCHANGED <<config, calls, orders, customers, gatewayOrders, savedItems>>
       /\ IF index = 0
          THEN res' = Returned("incrementQuantity", FALSE) /\ UNCHANGED cart
          ELSE /\ cart[index].quantity < MaxCartQty
               /\ cart' = [cart EXCEPT ![index].quantity = @ + 1]
               /\ res' = Returned("incrementQuantity", TRUE)

DecrementQuantity(itemId) ==
    LET index == FindIndex(cart, itemId)
    IN /\ req' = [op |-> "decrementQuantity", itemId |-> itemId]
       /\ UNCHANGED <<config, calls, orders, customers, gatewayOrders, savedItems>>
       /\ IF index = 0
          THEN res' = Returned("decrementQuantity", FALSE) /\ UNCHANGED cart
          ELSE /\ cart' = IF cart[index].quantity <= 1 THEN Splice(cart, index)
                          ELSE [cart EXCEPT ![index].quantity = @ - 1]
               /\ res' = Returned("decrementQuantity", TRUE)

RemoveItem(itemId) ==
    LET index == FindIndex(cart, itemId)
    IN /\ req' = [op |-> "removeItem", itemId |-> itemId]
       /\ UNCHANGED <<config, calls, orders, customers, gatewayOrders, savedItems>>
       /\ IF index = 0
          THEN res' = Returned("removeItem", FALSE) /\ UNCHANGED cart
          ELSE /\ cart' = Splice(cart, index)
               /\ res' = Returned("removeItem", TRUE)

SaveForLater(itemId) ==
    LET index == FindIndex(cart, itemId)
    IN /\ req' = [op |-> "saveForLater", itemId |-> itemId]
       /\ UNCHANGED <<config, calls, orders, customers, gatewayOrders>>
       /\ IF index = 0
          THEN res' = Returned("saveForLater", FALSE) /\ UNCHANGED <<cart, savedItems>>
          ELSE /\ Len(savedItems) < MaxSaved
               /\ cart' = Splice(cart, index)
               /\ savedItems' = Append(savedItems, cart[index])
               /\ res' = Returned("saveForLater", TRUE)

MoveToCart(itemId) ==
    LET index == FindIndex(savedItems, itemId)
    IN /\ req' = [op |-> "moveToCart", itemId |-> itemId]
       /\ UNCHANGED <<config, calls, orders, customers, gatewayOrders>>
       /\ IF index = 0
          THEN res' = Returned("moveToCart", FALSE) /\ UNCHANGED <<cart, savedItems>>
          ELSE LET item == savedItems[index]
                   existing == FindIndex(cart, item.id)
                   merged == IF existing # 0
                             THEN [cart EXCEPT ![existing].quantity = @ + item.quantity]
                             ELSE Append(cart, item)
               IN /\ \A i \in DOMAIN merged : merged[i].quantity <= MaxCartQty
                  /\ savedItems' = Splice(savedItems, index)
                  /\ cart' = merged
                  /\ res' = Returned("moveToCart", TRUE)

RemoveSavedItem(itemId) ==
    LET index == FindIndex(savedItems, itemId)
    IN /\ req' = [op |-> "removeSavedItem", itemId |-> itemId]
       /\ UNCHANGED <<config, calls, orders, customers, gatewayOrders, cart>>
       /\ IF index = 0
          THEN res' = Returned("removeSavedItem", FALSE) /\ UNCHANGED savedItems
          ELSE /\ savedItems' = Splice(savedItems, index)
               /\ res' = Returned("removeSavedItem", TRUE)

ClearCart ==
    /\ req' = [op |-> "clearCart"]
    /\ res' = Returned("clearCart", TRUE)
    /\ cart' = <<>>
    /\ UNCHANGED <<config, calls, orders, customers, gatewayOrders, savedItems>>

\* what the pages hand to addItem: two products of the catalog, a product and
\* a pack size it does not have
Selections ==
    {<<"cardamom", "50g">>, <<"cloves", "25g">>, <<"saffron", "1g">>,
     <<"cardamom", "1kg">>}

\* identifiers of lines: of the two products, and of a line no cart has
ItemIds ==
    {generateItemId("cardamom", "50g"), generateItemId("cloves", "25g"),
     generateItemId("pepper", "100g")}

NextCartManager ==
    \/ \E sel \in Selections, quantity \in 1..MaxCartQty :
          AddItem(sel[1], sel[2], quantity)
    \/ \E itemId \in ItemIds, quantity \in (-1)..MaxCartQty :
          UpdateQuantity(itemId, quantity)
    \/ \E itemId \in ItemIds : IncrementQuantity(itemId)
    \/ \E itemId \in ItemIds : DecrementQuantity(itemId)
    \/ \E itemId \in ItemIds : RemoveItem(itemId)
    \/ \E itemId \in ItemIds : SaveForLater(itemId)
    \/ \E itemId \in ItemIds : MoveToCart(itemId)
    \/ \E itemId \in ItemIds : RemoveSavedItem(itemId)
    \/ ClearCart

SpecCartManager == InitCreate /\ [][NextCartManager]_vars

(***************************************************************************)
(* The Prisma handlers step by step.  A handler awaits its findUnique or   *)
(* findFirst, builds the data of its update from the row it read, and      *)
(* awaits prisma.order.update; between the two awaits other handlers run.  *)
(* A call that has read holds the data it is about to write.               *)
(***************************************************************************)
\* prisma.order.update: the fields of data replace those of the row
Update(row, data) ==
    [f \in DOMAIN row |-> IF f \in DOMAIN data THEN data[f] ELSE row[f]]

\* no update: the handler answers without writing
NoData == [f \in {} |-> NULL]

\* the fields of written that the handler names in its update
Fields(written, names) == [f \in names |-> written[f]]

\* cancelOrder after its read: the data of its update, none when it refuses
CancelData(o, reason) ==
    IF o.status \notin cancellableStatuses("prisma") THEN NoData
    ELSE [status |-> "CANCELLED",
          statusHistory |->
              Append(o.statusHistory, Entry("CANCELLED", CancelNote(reason)))]

\* a verifyPayment that writes the payment and leaves the status alone
VerifyDataPaymentOnly(o, r) ==
    IF keySecret = NULL THEN NoData
    ELSE IF ~SignatureMatches(r) THEN [paymentStatus |-> "FAILED"]
    ELSE [paymentStatus |-> "PAID",
          razorpayPaymentId |-> r.razorpay_payment_id,
          razorpaySignature |-> r.razorpay_signature]

\* verifyPayment after its read
VerifyData(o, r) ==
    IF keySecret = NULL THEN NoData
    ELSE IF ~SignatureMatches(r) THEN [paymentStatus |-> "FAILED"]
    ELSE [paymentStatus |-> "PAID",
          razorpayPaymentId |-> r.razorpay_payment_id,
          razorpaySignature |-> r.razorpay_signature,
          status |-> "CONFIRMED",
          statusHistory |->
              Append(o.statusHistory, Entry("CONFIRMED", "Payment verified"))]

\* the webhook helpers after their findFirst
EventData(o, body) ==
    CASE body.event = "payment.captured" ->
            IF o.paymentStatus = "PAID" THEN NoData
            ELSE Fields(ApplyEventPrisma(o, body),
                        {"razorpayPaymentId", "paymentStatus", "status",
                         "statusHistory"})
      [] body.event = "payment.failed" ->
            Fields(ApplyEventPrisma(o, body), {"paymentStatus"})
      [] body.event = "refund.processed" ->
            Fields(ApplyEventPrisma(o, body),
                   {"paymentStatus", "status", "statusHistory"})

\* a call after its read
Reading(op, orderId, data) ==
    [pc |-> IF data = NoData THEN "done" ELSE "write",
     op |-> op, orderId |-> orderId, data |-> data]

BeginCancel(c, orderId, reason) ==
    /\ backend = "prisma"
    /\ calls[c] = Idle
    /\ orderId \in DOMAIN orders
    /\ req' = [op |-> "cancelOrder", orderId |-> orderId, reason |-> reason]
    /\ calls' = [calls EXCEPT ![c] =
          Reading("cancelOrder", orderId, CancelData(orders[orderId], reason))]
    /\ res' = IF CancelData(orders[orderId], reason) = NoData
              THEN Response("cancelOrder", 400, orderId) ELSE res
    /\ UNCHANGED <<config, browser, orders, customers, gatewayOrders>>

BeginVerify(c, r) ==
    /\ backend = "prisma"
    /\ calls[c] = Idle
    /\ r.orderId \in DOMAIN orders
    /\ req' = r
    /\ calls' = [calls EXCEPT ![c] =
          Reading("verifyPayment", r.orderId, VerifyData(orders[r.orderId], r))]
    /\ res' = IF VerifyData(orders[r.orderId], r) = NoData
              THEN Response("verifyPayment", 503, r.orderId) ELSE res
    /\ UNCHANGED <<config, browser, orders, customers, gatewayOrders>>

\* an authenticated event whose lookup returned the order target
BeginEvent(c, body, target) ==
    /\ backend = "prisma"
    /\ calls[c] = Idle
    /\ webhookSecret # NULL
    /\ target \in Candidates(body)
    /\ req' = [op |-> "webhook", body |-> body, header |-> ValidHeader(body)]
    /\ calls' = [calls EXCEPT ![c] =
          Reading("webhook", target, EventData(orders[target], body))]
    /\ res' = IF EventData(orders[target], body) = NoData
              THEN Response("webhook", 200, target) ELSE res
    /\ UNCHANGED <<config, browser, orders, customers, gatewayOrders>>

\* the awaited update of a call, and its response
Commit(c) ==
    /\ calls[c].pc = "write"
    /\ orders' = [orders EXCEPT ![calls[c].orderId] = Update(@, calls[c].data)]
    /\ calls' = [calls EXCEPT ![c].pc = "done"]
    /\ res' = Response(calls[c].op,
                       IF calls[c].op = "verifyPayment" /\ "status" \notin DOMAIN calls[c].data
                       THEN 400 ELSE 200,
                       calls[c].orderId)
    /\ UNCHANGED <<config, browser, customers, gatewayOrders, req>>

InitRace ==
    /\ backend \in Backends
    /\ keyId = "rzp_key_id"
    /\ keySecret = "key_secret"
    /\ webhookSecret = "webhook_secret"
    /\ orders = <<>>
    /\ customers = <<>>
    /\ gatewayOrders = {}
    /\ req = NoRequest
    /\ res = Response("none", 0, NULL)
    /\ cart = <<>>
    /\ savedItems = <<>>
    /\ calls = [c \in Calls |-> Idle]

\* events about the one payment of the one gateway order
RaceEvents ==
    {Event(e, "order_A", "pay_1") :
        e \in {"payment.captured", "payment.failed", "refund.processed"}}

\* one order is placed and handed to the gateway; then up to three requests
\* about it are in progress at once on the Prisma backend, and the Mongoose
\* handlers run one after the other
NextRace ==
    \/ \E orderId \in PayOrderIds : CreateOrderPrisma(OnlineBody, orderId)
    \/ \E orderId \in PayOrderIds : CreateOrderMongoose(OnlineBody, orderId)
    \/ \E orderId \in PayOrderIds : CreateRazorpayOrder(orderId, 50000, "order_A")
    \/ \E c \in Calls, orderId \in PayOrderIds : BeginCancel(c, orderId, NULL)
    \/ \E c \in Calls, r \in OrderVerifyRequests : BeginVerify(c, r)
    \/ \E c \in Calls, body \in RaceEvents, target \in PayOrderIds :
          BeginEvent(c, body, target)
    \/ \E c \in Calls : Commit(c)
    \/ \E orderId \in PayOrderIds : CancelOrderMongoose(orderId, NULL)
    \/ \E r \in OrderVerifyRequests : VerifyPaymentMongoose(r)
    \/ \E body \in RaceEvents, target \in PayOrderIds :
          backend = "mongoose" /\ HandleWebhook(body, ValidHeader(body), target)

SpecRace == InitRace /\ [][NextRace]_vars

(***************************************************************************)
(* createOrder step by step, for valid requests.  The Prisma handler       *)
(* awaits customer.findUnique, customer.create when it found none, and     *)
(* order.create; the Mongoose handler awaits order.save and then, inside   *)
(* a try, Customer.findOrCreate (findOne, then save).  phone is unique in  *)
(* both stores: a second row or document for a phone is refused.           *)
(***************************************************************************)
\* a createOrder in progress
Creating(pc, orderId, body, found, status) ==
    [pc |-> pc, op |-> "createOrder", orderId |-> orderId, body |-> body,
     found |-> found, status |-> status]

\* identifiers generateOrderId has handed to a call
Taken == {calls[c].orderId : c \in {k \in Calls : calls[k] # Idle}}

\* Prisma: validation passed and customer.findUnique has answered
BeginCreatePrisma(c, body, orderId) ==
    /\ backend = "prisma"
    /\ calls[c] = Idle
    /\ validateOrder(body) /\ ~HasInvalidProduct(Sanitized(body).items)
    /\ orderId \notin DOMAIN orders \cup Taken
    /\ req' = [op |-> "createOrder", body |-> body]
    /\ calls' = [calls EXCEPT ![c] =
          Creating(IF body.phone \in DOMAIN customers THEN "createOrder"
                   ELSE "createCustomer",
                   orderId, body, body.phone \in DOMAIN customers, 0)]
    /\ UNCHANGED <<config, browser, orders, customers, gatewayOrders, res>>

\* Prisma: customer.create; a row with the phone makes it throw, and the
\* catch of the handler answers 500
CreateCustomerPrisma(c) ==
    /\ calls[c].pc = "createCustomer"
    /\ UNCHANGED <<config, browser, orders, gatewayOrders, req>>
    /\ IF calls[c].body.phone \in DOMAIN customers
       THEN /\ calls' = [calls EXCEPT ![c].pc = "done", ![c].status = 500]
            /\ res' = Response("createOrder", 500, NULL)
            /\ UNCHANGED customers
       ELSE /\ customers' = customers @@ (calls[c].body.phone :> NewCustomer)
            /\ calls' = [calls EXCEPT ![c].pc = "createOrder"]
            /\ UNCHANGED res

\* Prisma: order.create and the response
CreateOrderRowPrisma(c) ==
    /\ calls[c].pc = "createOrder"
    /\ orders' = orders @@
          (calls[c].orderId :> PrismaOrder(calls[c].orderId, Sanitized(calls[c].body)))
    /\ calls' = [calls EXCEPT ![c].pc = "done", ![c].status = 201]
    /\ res' = Response("createOrder", 201, calls[c].orderId)
    /\ UNCHANGED <<config, browser, customers, gatewayOrders, req>>

\* Mongoose: validation passed and order.save has stored the order
BeginCreateMongoose(c, body, orderId) ==
    /\ backend = "mongoose"
    /\ calls[c] = Idle
    /\ validateOrder(body) /\ ~HasInvalidProduct(Sanitized(body).items)
    /\ ValidateOrderDoc(MongooseOrder(orderId, Sanitized(body)))
    /\ orderId \notin DOMAIN orders \cup Taken
    /\ req' = [op |-> "createOrder", body |-> body]
    /\ orders' = orders @@
          (orderId :> Stored(PreSave(MongooseOrder(orderId, Sanitized(body)), TRUE)))
    /\ calls' = [calls EXCEPT ![c] =
          Creating("findCustomer", orderId, body, FALSE, 0)]
    /\ UNCHANGED <<config, browser, customers, gatewayOrders, res>>

\* Mongoose: the findOne of Customer.findOrCreate
FindCustomerMongoose(c) ==
    /\ calls[c].pc = "findCustomer"
    /\ calls' = [calls EXCEPT ![c].pc = "saveCustomer",
                              ![c].found = calls[c].body.phone \in DOMAIN customers]
    /\ UNCHANGED <<config, browser, orders, customers, gatewayOrders, req, res>>

\* Mongoose: the save of the customer, the address and the order on it, and
\* the response; a save of a second document for the phone throws, the
\* catch around the customer record logs it, and the response is the same
SaveCustomerMongoose(c) ==
    /\ calls[c].pc = "saveCustomer"
    /\ customers' =
          IF ~calls[c].found /\ calls[c].body.phone \in DOMAIN customers
          THEN customers
          ELSE RecordCustomer(calls[c].body.phone, Sanitized(calls[c].body).pincode,
                              calls[c].orderId, orders[calls[c].orderId].total)
    /\ calls' = [calls EXCEPT ![c].pc = "done", ![c].status = 201]
    /\ res' = Response("createOrder", 201, calls[c].orderId)
    /\ UNCHANGED <<config, browser, orders, gatewayOrders, req>>

\* a valid request of a second customer
OtherBody == Body("9123456780", Chars("560001"), <<Pepper>>, "cod", TRUE)

NextSignup ==
    \/ \E c \in Calls, body \in {CodBody, OnlineBody, OtherBody}, orderId \in OrderIds :
          BeginCreatePrisma(c, body, orderId)
    \/ \E c \in Calls : CreateCustomerPrisma(c)
    \/ \E c \in Calls : CreateOrderRowPrisma(c)
    \/ \E c \in Calls, body \in {CodBody, OnlineBody, OtherBody}, orderId \in OrderIds :
          BeginCreateMongoose(c, body, orderId)
    \/ \E c \in Calls : FindCustomerMongoose(c)
    \/ \E c \in Calls : SaveCustomerMongoose(c)

SpecSignup == InitRace /\ [][NextSignup]_vars

(***************************************************************************)
(* handleWebhook when the database fails.  A findFirst/findOne or an       *)
(* update/save that throws does so inside the try of the helper; the catch *)
(* of the helper logs the error and returns, and handleWebhook goes on to  *)
(* its response.  failed says which call threw.                            *)
(***************************************************************************)
WebhookDatabaseError(body, header, failed) ==
    /\ webhookSecret # NULL
    /\ header # NoSig
    /\ HeaderMatches(body, header)
    /\ body.event \in {"payment.captured", "payment.failed", "refund.processed"}
    /\ failed \in {"lookup", "write"}
    /\ failed = "write" => Candidates(body) # {}
    /\ req' = [op |-> "webhook", body |-> body, header |-> header]
    /\ res' = Response("webhook", 200, NULL)
    /\ UNCHANGED <<config, browser, calls, orders, customers, gatewayOrders>>

\* one order is placed, handed to the gateway and paid; events about it
\* arrive while the database answers or fails
NextWebhook ==
    \/ \E orderId \in PayOrderIds : CreateOrderPrisma(OnlineBody, orderId)
    \/ \E orderId \in PayOrderIds : CreateOrderMongoose(OnlineBody, orderId)
    \/ \E orderId \in PayOrderIds, razorpayOrderId \in RzpOrderIds :
          CreateRazorpayOrder(orderId, 50000, razorpayOrderId)
    \/ \E r \in PaidRequests : VerifyPaymentPrisma(r)
    \/ \E r \in PaidRequests : VerifyPaymentMongoose(r)
    \/ \E d \in OrderDeliveries, target \in OrderIds \cup {NULL} :
          HandleWebhook(d[1], d[2], target)
    \/ \E d \in OrderDeliveries, failed \in {"lookup", "write"} :
          WebhookDatabaseError(d[1], d[2], failed)

SpecWebhook == InitRace /\ [][NextWebhook]_vars

(***************************************************************************)
(* Properties of order placement.                                          *)
(***************************************************************************)
\* the last step was a createOrder that stored an order
Created == req.op = "createOrder" /\ res.status = 201

\* the order the last createOrder stored
CreatedOrder == orders[res.orderId]

\* C1: createOrder re-validates prices server-side: every item of the order
\* it stores carries the product, pack size and quantity of the request, the
\* catalog price of that product and pack size, and price times quantity as
\* its total, whatever price the request carried.
C1_ServerSidePrices ==
    Created =>
        /\ Len(CreatedOrder.items) = Len(req.body.items)
        /\ \A i \in 1..Len(CreatedOrder.items) :
              LET it == CreatedOrder.items[i]
                  sent == req.body.items[i]
              IN /\ it.productId = sent.productId
                 /\ it.packSize = sent.packSize
                 /\ it.quantity = sent.quantity
                 /\ it.price = Catalog[sent.productId][sent.packSize]
                 /\ it.total = Catalog[sent.productId][sent.packSize] * sent.quantity

\* an order was stored from a request whose price differed from the catalog
C1_Witness ==
    /\ Created
    /\ \E i \in 1..Len(req.body.items) :
          req.body.items[i].price # CreatedOrder.items[i].price

\* a pincode of the delivery city: 560 followed by three digits
IsCityPincode(p) ==
    p \in {<<"5", "6", "0", a, b, c>> : a, b, c \in Digits}

\* C7 as stated: a createOrder or Order.save whose pincode does not match
\* 560 followed by three digits stores no order.
C7_AsStated ==
    (req.op \in {"createOrder", "Order.save"} /\ ~IsCityPincode(req.body.pincode))
        => ~res.success

\* every stored order has a pincode of 560 followed by three digits
C7_StoredPincodes == \A id \in DOMAIN orders : IsCityPincode(orders[id].pincode)

\* C7 (amended): every stored order has a pincode matching 560 followed by
\* three digits; a createOrder request whose pincode, once surrounding
\* whitespace is trimmed, does not match is answered 400 and stores no order,
\* and an Order.save whose pincode as given does not match is rejected and
\* stores no order.
C7_SingleCity ==
    /\ []C7_StoredPincodes
    /\ [][(req'.op = "createOrder" /\ ~IsCityPincode(Trim(req'.body.pincode)))
            => (res'.status = 400 /\ orders' = orders)]_vars
    /\ [][(req'.op = "Order.save" /\ ~IsCityPincode(req'.body.pincode))
            => (~res'.success /\ orders' = orders)]_vars

\* an order is stored and a request for another city has just been refused
C7_Witness ==
    /\ DOMAIN orders # {}
    /\ req.op = "createOrder"
    /\ req.body.pincode = Chars("400001")
    /\ res.status = 400

\* every stored order has at least one item
C8_StoredItems == \A id \in DOMAIN orders : Len(orders[id].items) >= 1

\* C8: every stored order has at least one item; a createOrder request with
\* an empty items list is answered 400 with success false and an Order.save
\* with an empty items array is rejected, neither storing an order.
C8_AtLeastOneItem ==
    /\ []C8_StoredItems
    /\ [][(req'.op = "createOrder" /\ req'.body.items = <<>>)
            => (res'.status = 400 /\ ~res'.success /\ orders' = orders)]_vars
    /\ [][(req'.op = "Order.save" /\ req'.body.items = <<>>)
            => (~res'.success /\ orders' = orders)]_vars

\* an order is stored and a request without items has just been refused
C8_Witness ==
    /\ DOMAIN orders # {}
    /\ req.op \in {"createOrder", "Order.save"}
    /\ req.body.items = <<>>
    /\ ~res.success

\* C9: createOrder stores a cash-on-delivery order with status confirmed and
\* an online order with status pending, both with paymentStatus pending, and
\* the first statusHistory entry of the new order is that initial status.
C9_InitialState ==
    Created =>
        /\ CreatedOrder.status =
              Enum(backend, IF req.body.paymentMethod = "cod"
                            THEN "confirmed" ELSE "pending")
        /\ CreatedOrder.paymentStatus = Enum(backend, "pending")
        /\ Len(CreatedOrder.statusHistory) >= 1
        /\ CreatedOrder.statusHistory[1].status = CreatedOrder.status

\* a cash-on-delivery order and an online order are both stored
C9_Witness ==
    /\ Created
    /\ \E a, b \in DOMAIN orders :
          /\ orders[a].paymentMethod = Enum(backend, "cod")
          /\ orders[b].paymentMethod = Enum(backend, "online")
          /\ orders[a].status = Enum(backend, "confirmed")
          /\ orders[b].status = Enum(backend, "pending")

RECURSIVE CatalogSubtotal(_)
\* the subtotal of a request at catalog prices
CatalogSubtotal(items) ==
    IF items = <<>> THEN 0
    ELSE Catalog[Head(items).productId][Head(items).packSize] * Head(items).quantity
         + CatalogSubtotal(Tail(items))

\* C10: createOrder stores the subtotal recomputed at catalog prices,
\* deliveryCharge 0 when that subtotal is at least 500 and 40 otherwise, and
\* total equal to subtotal plus deliveryCharge.
C10_DeliveryCharge ==
    Created =>
        /\ CreatedOrder.subtotal = CatalogSubtotal(req.body.items)
        /\ CreatedOrder.deliveryCharge =
              (IF CatalogSubtotal(req.body.items) >= 500 THEN 0 ELSE 40)
        /\ CreatedOrder.total = CreatedOrder.subtotal + CreatedOrder.deliveryCharge

\* an order of exactly 500 was stored while a smaller one is in the store
C10_Witness ==
    /\ Created
    /\ CreatedOrder.subtotal = 500
    /\ \E id \in DOMAIN orders : orders[id].subtotal < 500 /\ orders[id].deliveryCharge = 40

(***************************************************************************)
(* Properties of payment.                                                  *)
(***************************************************************************)
\* order o is paid
Paid(o) == o.paymentStatus \in {"PAID", "paid"}

\* C2: an order's paymentStatus becomes paid only in a verifyPayment step for
\* that order whose razorpay_signature is the HMAC-SHA256 of
\* razorpay_order_id|razorpay_payment_id under the configured key secret, or
\* in a payment.captured webhook step whose header is the HMAC-SHA256 of the
\* body under the configured webhook secret.
C2_PaidOnlyBySignature ==
    [][\A id \in DOMAIN orders' :
          (Paid(orders'[id]) /\ (id \in DOMAIN orders => ~Paid(orders[id]))) =>
             \/ /\ req'.op = "verifyPayment"
                /\ req'.orderId = id
                /\ keySecret # NULL
                /\ req'.razorpay_signature =
                      <<"hmac-sha256", keySecret,
                        <<req'.razorpay_order_id, "|", req'.razorpay_payment_id>>>>
             \/ /\ req'.op = "webhook"
                /\ req'.body.event = "payment.captured"
                /\ webhookSecret # NULL
                /\ req'.header =
                      <<"hmac-sha256", webhookSecret, Stringify(req'.body)>>]_vars

\* verifyPayment has just marked a pending order paid
C2_Witness ==
    /\ req.op = "verifyPayment"
    /\ res.status = 200
    /\ Paid(orders[req.orderId])
    /\ Len(orders[req.orderId].statusHistory) > 1

\* the step that led to request q and response a confirmed a payment
IsConfirmation(q, a) ==
    /\ a.status = 200
    /\ \/ q.op = "verifyPayment"
       \/ q.op = "webhook" /\ q.body.event = "payment.captured" /\ a.orderId # NULL

\* the order, gateway order and payment of a confirmation
Confirmation(q, a) ==
    IF q.op = "verifyPayment"
    THEN <<q.orderId, q.razorpay_order_id, q.razorpay_payment_id>>
    ELSE <<a.orderId, q.body.order_id, q.body.payment_id>>

\* C3: when a successful payment confirmation (verifyPayment with a valid
\* signature or a payment.captured webhook) has left an order paid by its
\* payment and is followed by a successful confirmation of the same payment
\* for the same order, the second leaves the order's status, paymentStatus,
\* razorpayPaymentId and statusHistory as the first left them.
C3_IdempotentConfirmation ==
    [][(/\ IsConfirmation(req, res)
        /\ Paid(orders[Confirmation(req, res)[1]])
        /\ orders[Confirmation(req, res)[1]].razorpayPaymentId =
              Confirmation(req, res)[3]
        /\ IsConfirmation(req', res')
        /\ Confirmation(req, res) = Confirmation(req', res')) =>
          LET id == Confirmation(req, res)[1]
          IN /\ orders'[id].status = orders[id].status
             /\ orders'[id].paymentStatus = orders[id].paymentStatus
             /\ orders'[id].razorpayPaymentId = orders[id].razorpayPaymentId
             /\ orders'[id].statusHistory = orders[id].statusHistory]_vars

\* C4: a handleWebhook step answers 503 when no webhook secret is configured,
\* 400 when the header is missing and 401 when the header is not the
\* HMAC-SHA256 of the body under the webhook secret, and changes an order
\* only when the header is that digest.
C4_WebhookSignature ==
    [][req'.op = "webhook" =>
          LET expected == <<"hmac-sha256", webhookSecret, Stringify(req'.body)>>
          IN /\ webhookSecret = NULL => res'.status = 503
             /\ (webhookSecret # NULL /\ req'.header = NoSig) => res'.status = 400
             /\ (webhookSecret # NULL /\ req'.header # NoSig
                   /\ req'.header # expected) => res'.status = 401
             /\ res'.status \in {503, 400, 401} => orders' = orders
             /\ orders' # orders =>
                   (webhookSecret # NULL /\ req'.header = expected)]_vars

\* a payment.captured event for the gateway order of an unpaid order has
\* just been refused for its header
C4_Witness ==
    /\ req.op = "webhook"
    /\ res.status = 401
    /\ req.body.event = "payment.captured"
    /\ \E id \in DOMAIN orders :
          /\ orders[id].razorpayOrderId = req.body.order_id
          /\ ~Paid(orders[id])

(***************************************************************************)
(* Properties of cancellation.                                             *)
(***************************************************************************)
\* C5: cancelOrder on an existing order whose status is neither pending nor
\* confirmed is answered 400 and changes no order.
C5_CancelRefused ==
    [][(/\ req'.op = "cancelOrder"
        /\ req'.orderId \in DOMAIN orders
        /\ orders[req'.orderId].status \notin
              {"PENDING", "CONFIRMED", "pending", "confirmed"}) =>
          (res'.status = 400 /\ ~res'.success /\ orders' = orders)]_vars

\* the cancellation of an order in fulfilment has just been refused while
\* another order is cancelled
C5_Witness ==
    /\ req.op = "cancelOrder"
    /\ res.status = 400
    /\ orders[req.orderId].status \in
          {"PROCESSING", "DISPATCHED", "DELIVERED", "processing", "dispatched",
           "delivered"}
    /\ \E id \in DOMAIN orders : orders[id].status \in {"CANCELLED", "cancelled"}

\* C6: a successful cancelOrder sets the order's status to cancelled, appends
\* to its statusHistory one cancelled entry carrying the reason given (or
\* 'Cancelled by customer'), and leaves its paymentStatus, payment
\* identifiers, items and totals, and every other order, unchanged.
C6_CancelEffect ==
    [][(req'.op = "cancelOrder" /\ res'.status = 200) =>
          LET id == req'.orderId
              note == IF req'.reason \in {NULL, ""} THEN "Cancelled by customer"
                      ELSE req'.reason
              cancelled == IF backend = "prisma" THEN "CANCELLED" ELSE "cancelled"
          IN /\ DOMAIN orders' = DOMAIN orders
             /\ orders'[id].status = cancelled
             /\ orders'[id].statusHistory =
                   Append(orders[id].statusHistory,
                          [status |-> cancelled, note |-> note])
             /\ \A f \in {"paymentStatus", "razorpayOrderId", "razorpayPaymentId",
                          "razorpaySignature", "items", "subtotal",
                          "deliveryCharge", "total"} :
                   orders'[id][f] = orders[id][f]
             /\ \A other \in DOMAIN orders \ {id} :
                   orders'[other] = orders[other]]_vars

(***************************************************************************)
(* Properties of the Order model.                                          *)
(***************************************************************************)
RECURSIVE C11_Sum(_)
\* the sum of the totals of items
C11_Sum(items) == IF items = <<>> THEN 0 ELSE Head(items).total + C11_Sum(Tail(items))

\* C11: every Order document stored by a save has each item's total equal to
\* price times quantity, subtotal equal to the sum of the item totals and
\* total equal to subtotal plus deliveryCharge, whatever totals the document
\* carried before the save.
C11_TotalsRecomputed ==
    \A id \in DOMAIN orders :
        /\ \A i \in 1..Len(orders[id].items) :
              orders[id].items[i].total =
                  orders[id].items[i].price * orders[id].items[i].quantity
        /\ orders[id].subtotal = C11_Sum(orders[id].items)
        /\ orders[id].total = orders[id].subtotal + orders[id].deliveryCharge

\* a document saved with wrong totals has since been updated and paid
C11_Witness ==
    /\ req.op = "Order.markAsPaid"
    /\ \E id \in DOMAIN orders :
          /\ Len(orders[id].items) = 2
          /\ orders[id].subtotal > 0
          /\ orders[id].status = "confirmed"
          /\ Len(orders[id].statusHistory) >= 3

(***************************************************************************)
(* Properties of one order through every operation.                        *)
(***************************************************************************)
\* the operations that take the orderId of a stored order
Addressed == {"getOrder", "cancelOrder", "createRazorpayOrder", "verifyPayment"}

\* C12 as stated: every getOrder, cancelOrder, createRazorpayOrder and
\* verifyPayment naming an orderId that is not stored is answered 404 with
\* success false and changes no order and no customer.
C12_AsStated ==
    [][(req'.op \in Addressed /\ req'.orderId \notin DOMAIN orders) =>
          /\ res'.status = 404
          /\ ~res'.success
          /\ orders' = orders
          /\ customers' = customers]_vars

\* C12 (amended): a getOrder, cancelOrder or verifyPayment naming an orderId
\* that is not stored, and a createRazorpayOrder naming one with a non-zero
\* amount, is answered 404 with success false; a createRazorpayOrder naming
\* one without an amount is answered 400 with success false; none of them
\* changes an order or a customer.
C12_NotFound ==
    [][(req'.op \in Addressed /\ req'.orderId \notin DOMAIN orders) =>
          /\ res'.status =
                (IF req'.op = "createRazorpayOrder" /\ req'.amount = 0
                 THEN 400 ELSE 404)
          /\ ~res'.success
          /\ orders' = orders
          /\ customers' = customers]_vars

\* an order is stored and a payment verification for another has just been
\* answered 404
C12_Witness ==
    /\ DOMAIN orders # {}
    /\ req.op = "verifyPayment"
    /\ req.orderId \notin DOMAIN orders
    /\ res.status = 404

\* C13: in every reachable state each stored order's status is one of
\* pending, confirmed, processing, dispatched, delivered, cancelled and its
\* paymentStatus one of pending, paid, failed, refunded, in upper case on the
\* relational backend and in lower case on the document backend.
C13_EnumValues ==
    \A id \in DOMAIN orders :
        IF backend = "prisma"
        THEN /\ orders[id].status \in
                   {"PENDING", "CONFIRMED", "PROCESSING", "DISPATCHED",
                    "DELIVERED", "CANCELLED"}
             /\ orders[id].paymentStatus \in {"PENDING", "PAID", "FAILED", "REFUNDED"}
        ELSE /\ orders[id].status \in
                   {"pending", "confirmed", "processing", "dispatched",
                    "delivered", "cancelled"}
             /\ orders[id].paymentStatus \in {"pending", "paid", "failed", "refunded"}

\* a refund webhook has just cancelled a paid order
C13_Witness ==
    /\ req.op = "webhook"
    /\ req.body.event = "refund.processed"
    /\ res.orderId \in DOMAIN orders
    /\ orders[res.orderId].paymentStatus \in {"REFUNDED", "refunded"}
    /\ orders[res.orderId].status \in {"CANCELLED", "cancelled"}

(***************************************************************************)
(* Properties of generateOrderId.                                          *)
(***************************************************************************)
\* TW-, six digits, a hyphen, six characters of A-Z and 0-9
IdWellFormed(id) ==
    /\ Len(id) = 16
    /\ id[1] = "T" /\ id[2] = "W" /\ id[3] = "-"
    /\ \A i \in 4..9 : id[i] \in Digits
    /\ id[10] = "-"
    /\ \A i \in 11..16 :
          id[i] \in Digits \cup
              {"A", "B", "C", "D", "E", "F", "G", "H", "I", "J", "K", "L", "M",
               "N", "O", "P", "Q", "R", "S", "T", "U", "V", "W", "X", "Y", "Z"}

\* C14: every identifier generateOrderId returns, from the Prisma helper and
\* from the Order model static alike, is TW- followed by six digits, a
\* hyphen and six characters each drawn from A-Z and 0-9.
C14_IdFormat == req.op = "generateOrderId" => IdWellFormed(res.orderId)

(***************************************************************************)
(* Properties of createRazorpayOrder and verifyPayment.                    *)
(***************************************************************************)
\* the step is a createRazorpayOrder naming a stored order with an amount
AmountChecked ==
    /\ req'.op = "createRazorpayOrder"
    /\ req'.orderId \in DOMAIN orders
    /\ req'.amount # 0

\* the amount of the request, to the nearest rupee, is the total of the order
\* (a stored total is a whole number of rupees)
AmountAgrees == (req'.amount + 50) \div 100 = orders[req'.orderId].total

\* C15: createRazorpayOrder proceeds only when the requested amount rounded
\* to the nearest integer equals the order total rounded to the nearest
\* integer; on a mismatch it responds 400, creates no gateway order and
\* leaves the razorpayOrderId of the order as it was.
C15_AmountMismatch ==
    [][AmountChecked =>
          /\ ~AmountAgrees =>
                /\ res'.status = 400
                /\ gatewayOrders' = gatewayOrders
                /\ orders'[req'.orderId].razorpayOrderId
                      = orders[req'.orderId].razorpayOrderId
          /\ (\/ res'.status = 200
              \/ gatewayOrders' # gatewayOrders
              \/ orders'[req'.orderId].razorpayOrderId
                    # orders[req'.orderId].razorpayOrderId) => AmountAgrees]_vars

\* an order already handed to the gateway is asked for again with an amount
\* half a rupee above its total, and the request is refused
C15_Witness ==
    /\ req.op = "createRazorpayOrder"
    /\ req.orderId \in DOMAIN orders
    /\ req.amount = 50050
    /\ orders[req.orderId].total = 500
    /\ orders[req.orderId].razorpayOrderId # NULL
    /\ res.status = 400

\* the step is a verifyPayment naming a stored order whose signature is not
\* the digest, under the key secret, of the identifiers it carries
BadSignature ==
    /\ req'.op = "verifyPayment"
    /\ req'.orderId \in DOMAIN orders
    /\ keySecret # NULL
    /\ req'.razorpay_signature
          # Hmac(keySecret, VerifyMessage(req'.razorpay_order_id,
                                          req'.razorpay_payment_id))

Confirms ==
    /\ req'.op \in {"verifyPayment", "Order.markAsPaid"}
    /\ req'.orderId \in DOMAIN orders
    /\ \/ /\ req'.op = "verifyPayment"
          /\ keySecret # NULL
          /\ req'.razorpay_signature
                = Hmac(keySecret, VerifyMessage(req'.razorpay_order_id,
                                                req'.razorpay_payment_id))
       \/ req'.op = "Order.markAsPaid"

\* C17: a successful payment confirmation (verifyPayment with a valid
\* signature, or Order.markAsPaid) leaves the order with paymentStatus paid,
\* status confirmed, and razorpayPaymentId and razorpaySignature equal to the
\* supplied values, whatever its status and paymentStatus were before.
C17_ConfirmationResult ==
    [][Confirms =>
          LET after == orders'[req'.orderId]
          IN /\ res'.status = 200
             /\ after.paymentStatus \in {"PAID", "paid"}
             /\ after.status \in {"CONFIRMED", "confirmed"}
             /\ after.razorpayPaymentId = req'.razorpay_payment_id
             /\ after.razorpaySignature = req'.razorpay_signature]_vars

\* an order that was cancelled is confirmed and paid by a valid verifyPayment
C17_Witness ==
    /\ req.op = "verifyPayment"
    /\ res.status = 200
    /\ req.orderId \in DOMAIN orders
    /\ LET o == orders[req.orderId]
       IN /\ \E i \in DOMAIN o.statusHistory :
                o.statusHistory[i].status \in {"CANCELLED", "cancelled"}
          /\ o.status \in {"CONFIRMED", "confirmed"}
          /\ o.paymentStatus \in {"PAID", "paid"}
          /\ o.razorpayPaymentId = req.razorpay_payment_id

(***************************************************************************)
(* Properties of the status history.                                       *)
(***************************************************************************)
\* C19: after any sequence of createOrder, cancelOrder, updateStatus,
\* markAsPaid, verifyPayment and the payment.captured, payment.failed and
\* refund.processed webhooks, the statusHistory of an order is non-empty and
\* the status of its last entry is the current status of the order.
C19_HistoryFollowsStatus ==
    \A id \in DOMAIN orders :
        /\ orders[id].statusHistory # <<>>
        /\ orders[id].statusHistory[Len(orders[id].statusHistory)].status
              = orders[id].status

\* an order was placed, paid and refunded: it is cancelled, and so says the
\* last of its three or more history entries
C19_Witness ==
    \E id \in DOMAIN orders :
        /\ orders[id].paymentStatus \in {"REFUNDED", "refunded"}
        /\ orders[id].status \in {"CANCELLED", "cancelled"}
        /\ Len(orders[id].statusHistory) >= 3
        /\ orders[id].statusHistory[Len(orders[id].statusHistory)].note
              = "Refund processed"

(***************************************************************************)
(* Properties of validateCart.                                             *)
(***************************************************************************)
\* the item names a product and a pack size the catalog has a price for
HasCatalogPrice(item) ==
    /\ item.productId \in DOMAIN Catalog
    /\ item.packSize \in DOMAIN Catalog[item.productId]

\* C18: validateCart partitions the submitted items: each item whose
\* (productId, packSize) has a catalog price appears in the returned items
\* with price set to the catalog price, total equal to that price times
\* quantity and priceChanged true exactly when the submitted price differs;
\* every other item appears in errors and in no total; valid is true exactly
\* when errors is empty.
C18_CartPartition ==
    (req.op = "validateCart" /\ res.status = 200) =>
        LET priced == SelectSeq(req.items, HasCatalogPrice)
            others == SelectSeq(req.items, LAMBDA item : ~HasCatalogPrice(item))
        IN /\ Len(res.items) = Len(priced)
           /\ \A k \in DOMAIN priced :
                 LET price == Catalog[priced[k].productId][priced[k].packSize]
                 IN /\ res.items[k].productId = priced[k].productId
                    /\ res.items[k].packSize = priced[k].packSize
                    /\ res.items[k].quantity = priced[k].quantity
                    /\ res.items[k].price = price
                    /\ res.items[k].total = price * priced[k].quantity
                    /\ res.items[k].priceChanged = (priced[k].price # price)
           /\ Len(res.errors) = Len(others)
           /\ \A k \in DOMAIN others :
                 /\ res.errors[k].productId = others[k].productId
                 /\ res.errors[k].packSize = others[k].packSize
           /\ res.summary.subtotal = CatalogSubtotal(priced)
           /\ res.summary.total = res.summary.subtotal + res.summary.deliveryCharge
           /\ res.valid = (res.errors = <<>>)

\* a cart with a line at a price of the client's own and a line of no product
\* is answered with one repriced line, one error and valid false
C18_Witness ==
    /\ req.op = "validateCart"
    /\ res.status = 200
    /\ Len(req.items) = 3
    /\ ~res.valid
    /\ res.errors # <<>>
    /\ \E k \in DOMAIN res.items : res.items[k].priceChanged

(***************************************************************************)
(* Properties of the CartManager.                                          *)
(***************************************************************************)
\* C20: after any sequence of CartManager operations starting from an empty
\* cart (addItem with quantity at least 1, updateQuantity, incrementQuantity,
\* decrementQuantity, removeItem, saveForLater, moveToCart, clearCart), the
\* cart holds at most one line per id productId_packSize and every line has
\* quantity at least 1.
C20_CartLines ==
    /\ \A i, j \in DOMAIN cart : cart[i].id = cart[j].id => i = j
    /\ \A i \in DOMAIN cart :
          /\ cart[i].quantity >= 1
          /\ cart[i].id = <<cart[i].productId, "_", cart[i].packSize>>

\* a line of quantity 1 was added to a cart that held the same id with
\* quantity 1: the cart has one line of that id, with quantity 2, and another
C20_Witness ==
    /\ req.op = "addItem"
    /\ req.quantity = 1
    /\ res.success
    /\ Len(cart) = 2
    /\ \E i \in DOMAIN cart :
          /\ cart[i].id = <<req.productId, "_", req.packSize>>
          /\ cart[i].quantity = 2

\* how many entries of a list are the line
Occurrences(lines, line) == Cardinality({i \in DOMAIN lines : lines[i] = line})

\* two lists hold the same entries, order aside
SameEntries(a, b) ==
    /\ Len(a) = Len(b)
    /\ \A i \in DOMAIN a : Occurrences(a, a[i]) = Occurrences(b, a[i])

\* the step is the moveToCart(id) that follows a successful saveForLater(id)
MovesBack ==
    /\ req.op = "saveForLater"
    /\ res.success
    /\ req'.op = "moveToCart"
    /\ req'.itemId = req.itemId

\* C21: saveForLater(id) followed by moveToCart(id) is a round trip: from a
\* reachable state in which the cart holds a line with that id, the cart
\* afterwards holds the same lines with the same quantities (order aside) and
\* savedItems holds the same entries as before.  After the saveForLater the
\* line it moved is the last entry of savedItems, so the cart before it was
\* the cart plus that entry and savedItems was savedItems without it.
C21_RoundTrip ==
    [][MovesBack =>
          /\ SameEntries(cart', Append(cart, savedItems[Len(savedItems)]))
          /\ SameEntries(savedItems', SubSeq(savedItems, 1, Len(savedItems) - 1))]_vars

(***************************************************************************)
(* Properties of the payment state of an order over its life.              *)
(***************************************************************************)
\* the step is a verifyPayment that leaves the order it names paid
VerifiedPaid ==
    /\ req'.op = "verifyPayment"
    /\ req'.orderId \in DOMAIN orders
    /\ res'.status = 200
    /\ Paid(orders'[req'.orderId])

\* C22: verifyPayment marks an order paid only when the razorpay_order_id
\* covered by the verified signature is the razorpayOrderId that
\* createRazorpayOrder recorded on that same order.
C22_OwnGatewayOrder ==
    [][VerifiedPaid =>
          req'.razorpay_order_id = orders[req'.orderId].razorpayOrderId]_vars

\* C23: once the paymentStatus of an order is paid, no later operation
\* (verifyPayment with any signature, a payment.failed or payment.captured
\* webhook, cancelOrder, createRazorpayOrder) changes it to failed or
\* pending: it stays paid or becomes refunded.
C23_PaidStays ==
    [][\A id \in DOMAIN orders :
          orders[id].paymentStatus \in {"PAID", "paid"} =>
              orders'[id].paymentStatus \in {"PAID", "paid", "REFUNDED", "refunded"}]_vars

\* C24: cancelled is a terminal status: once the status of an order is
\* cancelled (by cancelOrder or by a refund.processed webhook), no later
\* operation, verifyPayment and the payment.captured webhook included,
\* changes its status.
C24_CancelledTerminal ==
    [][\A id \in DOMAIN orders :
          orders[id].status \in {"CANCELLED", "cancelled"} =>
              orders'[id].status = orders[id].status]_vars

(***************************************************************************)
(* Properties of handlers in progress at the same time.                    *)
(***************************************************************************)
\* the call has committed an update that pushed an entry onto statusHistory
Pushed(c) ==
    /\ calls[c].pc = "done"
    /\ "statusHistory" \in DOMAIN calls[c].data

\* the entry a call pushed: the last of the history it wrote
PushedEntry(c) == calls[c].data.statusHistory[Len(calls[c].data.statusHistory)]

\* C25: under every interleaving of requests in progress on the same order
\* (cancelOrder, verifyPayment, the payment.captured and refund.processed
\* handlers, each reading the order and then writing it), every status
\* change that was committed is an entry of the final statusHistory of the
\* order: once no request is between its read and its write, the entry each
\* committed update pushed is in the statusHistory.
C25_NoLostEntry ==
    (\A c \in Calls : calls[c].pc # "write") =>
        \A c \in Calls :
            Pushed(c) =>
                \E i \in DOMAIN orders[calls[c].orderId].statusHistory :
                    orders[calls[c].orderId].statusHistory[i] = PushedEntry(c)

\* C29: in every reachable state, under any sequence or interleaving of
\* createOrder, cancelOrder, verifyPayment and webhook events, an order whose
\* paymentStatus is paid does not have status pending.
C29_PaidNotPending ==
    \A id \in DOMAIN orders :
        orders[id].paymentStatus \in {"PAID", "paid"} =>
            orders[id].status \notin {"PENDING", "pending"}

\* a verifyPayment and a cancelOrder were in progress together and both
\* committed: the order is paid, and cancelled or confirmed, not pending
C29_Witness ==
    /\ \E c, d \in Calls :
          /\ calls[c].pc = "done" /\ calls[c].op = "verifyPayment"
          /\ "status" \in DOMAIN calls[c].data
          /\ calls[d].pc = "done" /\ calls[d].op = "cancelOrder"
          /\ "status" \in DOMAIN calls[d].data
    /\ \E id \in DOMAIN orders :
          /\ orders[id].paymentStatus = "PAID"
          /\ orders[id].status = "CANCELLED"
          /\ Len(orders[id].statusHistory) = 2

\* two createOrder calls for the same phone have both answered
BothAnswered(c, d) ==
    /\ c # d
    /\ calls[c].pc = "done" /\ calls[c].op = "createOrder"
    /\ calls[d].pc = "done" /\ calls[d].op = "createOrder"
    /\ calls[c].body.phone = calls[d].body.phone

\* C26: two valid createOrder requests in progress together that carry the
\* same phone number, not seen before, both complete with 201 and a stored
\* order, and a customer record exists for that phone afterwards (the store
\* holds at most one per phone), under every interleaving of their
\* find-customer and create-customer steps.
C26_BothCreated ==
    \A c, d \in Calls :
        BothAnswered(c, d) =>
            /\ calls[c].status = 201
            /\ calls[c].orderId \in DOMAIN orders
            /\ calls[d].status = 201
            /\ calls[d].orderId \in DOMAIN orders
            /\ calls[c].body.phone \in DOMAIN customers

(***************************************************************************)
(* Properties of the webhook acknowledgement.                              *)
(***************************************************************************)
\* the step answers 200 to an authenticated event of the three handled kinds
Acknowledged ==
    /\ req'.op = "webhook"
    /\ res'.status = 200
    /\ req'.header = Hmac(webhookSecret, Stringify(req'.body))
    /\ req'.body.event \in {"payment.captured", "payment.failed", "refund.processed"}

\* after the step the order carries what the event says
Applied(id) ==
    CASE req'.body.event = "payment.captured" ->
            orders'[id].paymentStatus \in {"PAID", "paid"}
      [] req'.body.event = "payment.failed" ->
            orders'[id].paymentStatus \in {"FAILED", "failed"}
      [] req'.body.event = "refund.processed" ->
            /\ orders'[id].paymentStatus \in {"REFUNDED", "refunded"}
            /\ orders'[id].status \in {"CANCELLED", "cancelled"}

\* C27: handleWebhook answers 200 to an authenticated payment.captured,
\* payment.failed or refund.processed event only when the update of the
\* order the event is about was applied or no update was needed (no order
\* matches, or the order already carries what the event says); when the
\* lookup or the write fails, the webhook does not acknowledge success.
C27_AcknowledgedApplied ==
    [][Acknowledged =>
          \/ Candidates(req'.body) = {}
          \/ \E id \in Candidates(req'.body) : Applied(id)]_vars

(***************************************************************************)
(* Properties of the minimum order amount.                                 *)
(***************************************************************************)
\* C28: no order whose subtotal, as recomputed by the server from its own
\* prices, is below the minimum order amount of 200 is ever stored.
C28_MinimumOrder ==
    \A id \in DOMAIN orders : orders[id].subtotal >= MIN_ORDER_AMOUNT

====
